---- MODULE Spec2Model ----
(***************************************************************************)
(* bumper-lib: the requirement reconciliation engine.                      *)
(*   src/src/bumper/cars.py      BumpRequirement, RequirementsManager,     *)
(*                               Bump, AbstractBumper, RequirementsBumper  *)
(*   src/src/bumper/__init__.py  BumperDriver                              *)
(*   src/src/bumper/utils.py     PyPI (the package index)                  *)
(*                                                                         *)
(* Values.  A version is a natural 1..MaxVer ordered as                    *)
(* pkg_resources.parse_version orders version strings; None is 0.  The     *)
(* version texts stand for "0.9" (1), "0.10" (2), "1.0" (3), ...: their    *)
(* order as strings (StrKey) differs from their order as versions.         *)
(* A specifier list (Requirement.specs) is a sequence of <<op, version>>.  *)
(* The text of a requirement or bump (str(...)) is [n |-> name, s |->      *)
(* specifier list]; the text "None" is NoneStr.                            *)
(***************************************************************************)
EXTENDS Integers, Sequences, FiniteSets, TLC

\* ------------------------------------------------------------------ bounds
MaxVer == 2
MaxLines == 2
MaxLoops == 6
MaxAdds == 3
MaxCalls == 2
MaxReqs == 2
MaxChecks == 2

\* ------------------------------------------------------------------ values
Names == {"a", "b"}
Versions == 1..MaxVer
None == 0

\* sorted(..., key=lambda r: r.project_name) and sorted(self._requirements)
NameRank(n) == IF n = "a" THEN 1 ELSE IF n = "b" THEN 2 ELSE 3

\* the key of sorted(info['releases'].keys(), key=lambda x: x.split()): text order
StrKey(v) == IF v = 1 THEN 2 ELSE IF v = 2 THEN 1 ELSE v

NoneStr == [n |-> "None", s |-> <<>>]
NoReq == [n |-> "", s |-> <<>>]

\* no call has returned yet
NoReturn == [kind |-> ""]

\* one (op, version) pair of Requirement.specs against a version
SpecOk(v, sp) ==
  CASE sp[1] = "==" -> v = sp[2]
    [] sp[1] = "!=" -> v # sp[2]
    [] sp[1] = ">=" -> v >= sp[2]
    [] sp[1] = "<=" -> v <= sp[2]
    [] sp[1] = ">" -> v > sp[2]
    [] sp[1] = "<" -> v < sp[2]

\* version in requirement (pkg_resources.Requirement.__contains__)
Contains(v, specs) == \A i \in 1..Len(specs) : SpecOk(v, specs[i])

\* req.specs and req.specs[0][0] == '=='
ReqIsPin(specs) == Len(specs) >= 1 /\ specs[1][1] = "=="

\* bump.new_version and bump.new_version[0] == '==': new_version is the pair
\* ('==', v); a joined specifier text is a 1-tuple whose element is never '=='
BumpIsPin(nv) == Len(nv) = 1 /\ nv[1][1] = "=="

\* str(requirement) / str(bump): name followed by the specifier text
StrOf(n, specs) == [n |-> n, s |-> specs]

\* pkg_resources.Requirement.parse orders the specifiers by version, then operator
OpRank(op) ==
  CASE op = "<" -> 1 [] op = "<=" -> 2 [] op = "!=" -> 3
    [] op = "==" -> 4 [] op = ">=" -> 5 [] op = ">" -> 6

SpecBefore(x, y) == x[2] < y[2] \/ (x[2] = y[2] /\ OpRank(x[1]) <= OpRank(y[1]))

RECURSIVE InsertSpec(_, _)
InsertSpec(sp, sorted) ==
  IF sorted = <<>> THEN <<sp>>
  ELSE IF SpecBefore(sp, Head(sorted)) THEN <<sp>> \o sorted
  ELSE <<Head(sorted)>> \o InsertSpec(sp, Tail(sorted))

RECURSIVE ParseSpecs(_)
ParseSpecs(specs) ==
  IF specs = <<>> THEN <<>> ELSE InsertSpec(Head(specs), ParseSpecs(Tail(specs)))

\* Bump.as_requirement: parse name + ''.join(new_version)
as_requirement(b) == [n |-> b.name, s |-> ParseSpecs(b.new_version)]

\* BumpRequirement: requirement, required, required_by (the text of the Bump, or NoneStr)
BumpRequirement(n, specs, required) ==
  [n |-> n, s |-> specs, required |-> required, required_by |-> NoneStr]

\* Bump: name, new_version (the specifier list after the name), requirements
Bump(name, nv) == [name |-> name, new_version |-> nv, requirements |-> <<>>]

StrBump(b) == StrOf(b.name, b.new_version)

\* Bump.require: every requirement becomes required, required by this bump
require(b, reqs) ==
  [b EXCEPT !.requirements =
     b.requirements \o
       [i \in 1..Len(reqs) |->
          [n |-> reqs[i].n, s |-> reqs[i].s, required |-> TRUE, required_by |-> StrBump(b)]]]

\* ------------------------------------------------------- RequirementsManager
\* requirements: name -> list of BumpRequirement (a name is managed iff its list is
\* not empty), matched_name, checked (the ledger of check's arguments)
EmptyManager ==
  [requirements |-> [n \in Names |-> <<>>], matched_name |-> FALSE, checked |-> <<>>]

\* RequirementsManager.__contains__
Manages(M, n) == n \in Names /\ M.requirements[n] # <<>>

\* RequirementsManager.__len__ (the manager's truth value)
ManagerLen(M) == Cardinality({n \in Names : M.requirements[n] # <<>>})

\* RequirementsManager.get
ManagerGet(M, n) == IF n \in Names THEN M.requirements[n] ELSE <<>>

\* the context of a check: a Requirement (kind "req") or a Bump (kind "bump")
CtxReq(r) == [kind |-> "req", name |-> r.n, nv |-> r.s]
CtxBump(b) == [kind |-> "bump", name |-> b.name, nv |-> b.new_version]

\* check, lines 162-174: whether the context resolves to a version
CtxIsPin(ctx) == IF ctx.kind = "bump" THEN BumpIsPin(ctx.nv) ELSE ReqIsPin(ctx.nv)

\* the version check tests: the context's pinned version, else the argument
CtxVersion(ctx, version) == IF CtxIsPin(ctx) THEN ctx.nv[1][2] ELSE version

\* the requirement text check tests (NoReq: none)
CtxReqStr(ctx) == IF CtxIsPin(ctx) THEN NoReq ELSE StrOf(ctx.name, ctx.nv)

\* CheckMatches of an entry whether required or not (C25 fails with it)
CheckMatchesAny(req, version, req_str) ==
  (version # None /\ Contains(version, req.s)) \/ req_str = StrOf(req.n, req.s)

\* req.required and (version and version in req or req_str == str(req))
CheckMatches(req, version, req_str) ==
  req.required /\ ((version # None /\ Contains(version, req.s)) \/ req_str = StrOf(req.n, req.s))

\* check, lines 182-185: the first entry the context satisfies (0: none)
RECURSIVE FirstMatch(_, _, _, _)
FirstMatch(reqs, version, req_str, i) ==
  IF i > Len(reqs) THEN 0
  ELSE IF CheckMatches(reqs[i], version, req_str) THEN i
  ELSE FirstMatch(reqs, version, req_str, i + 1)

CheckAt(M, ctx, version, i) ==
  [m |-> [M EXCEPT !.checked = Append(@, [ctx |-> ctx, version |-> version]),
                   !.matched_name = @ \/ Manages(M, ctx.name),
                   !.requirements =
                      IF i = 0 THEN @ ELSE [@ EXCEPT ![ctx.name][i].required = FALSE]],
   ok |-> i # 0]

\* RequirementsManager.check: [m |-> the manager afterwards, ok |-> the result]
check(M, ctx, version) ==
  CheckAt(M, ctx, version,
          FirstMatch(ManagerGet(M, ctx.name), CtxVersion(ctx, version), CtxReqStr(ctx), 1))

\* RequirementsManager.required_requirements: per name, the entries still required
RECURSIVE SelectRequired(_)
SelectRequired(reqs) ==
  IF reqs = <<>> THEN <<>>
  ELSE (IF Head(reqs).required THEN <<Head(reqs)>> ELSE <<>>) \o SelectRequired(Tail(reqs))

required_requirements(M) == [n \in Names |-> SelectRequired(M.requirements[n])]

\* BumpRequirement.__eq__
SameRequirement(req, existing_req) ==
  /\ req.n = existing_req.n
  /\ req.s = existing_req.s
  /\ req.required = existing_req.required
  /\ req.required_by = existing_req.required_by

\* add, lines 121-124: two pins
TwoPins(req, existing_req) == ReqIsPin(req.s) /\ ReqIsPin(existing_req.s)

\* ReplaceAny with lines 127-130 left out (C16 fails with it)
ReplaceNone(req, existing_req) == FALSE

\* add, lines 126-130: one of the two has no specifier
ReplaceAny(req, existing_req) == ~(req.s # <<>> /\ existing_req.s # <<>>)

\* Replacement keeping the new requirement's specifier where it has one (C15 fails
\* with it)
ReplacementNew(req, existing_req) ==
  [n |-> req.n,
   s |-> IF req.s # <<>> THEN req.s ELSE existing_req.s,
   required |-> req.required \/ existing_req.required,
   required_by |-> IF existing_req.required_by # NoneStr /\ req.required_by = NoneStr
                   THEN existing_req.required_by ELSE req.required_by]

\* Replacement keeping the new requirement's required flag (C30 fails with it)
ReplacementFlag(req, existing_req) ==
  [n |-> req.n,
   s |-> IF TwoPins(req, existing_req)
         THEN (IF req.s[1][2] < existing_req.s[1][2] THEN existing_req.s ELSE req.s)
         ELSE IF existing_req.s # <<>> THEN existing_req.s ELSE req.s,
   required |-> req.required,
   required_by |-> IF existing_req.required_by # NoneStr /\ req.required_by = NoneStr
                   THEN existing_req.required_by ELSE req.required_by]

\* add, lines 121-135: the requirement that replaces existing_req
Replacement(req, existing_req) ==
  [n |-> req.n,
   s |-> IF TwoPins(req, existing_req)
         THEN (IF req.s[1][2] < existing_req.s[1][2] THEN existing_req.s ELSE req.s)
         ELSE IF existing_req.s # <<>> THEN existing_req.s ELSE req.s,
   required |-> req.required \/ existing_req.required,
   required_by |-> IF existing_req.required_by # NoneStr /\ req.required_by = NoneStr
                   THEN existing_req.required_by ELSE req.required_by]

RemoveAt(reqs, i) == SubSeq(reqs, 1, i - 1) \o SubSeq(reqs, i + 1, Len(reqs))

\* add, lines 112-141: req against the entries of its name, from the i-th on
RECURSIVE AddTo(_, _, _)
AddTo(reqs, req, i) ==
  IF i > Len(reqs) THEN Append(reqs, req)
  ELSE IF SameRequirement(req, reqs[i]) THEN reqs
  ELSE IF TwoPins(req, reqs[i]) \/ ReplaceAny(req, reqs[i])
  THEN Append(RemoveAt(reqs, i), Replacement(req, reqs[i]))
  ELSE AddTo(reqs, req, i + 1)

\* add, lines 106-109: the required flag, when add is given one ("None": not given)
Flagged(req, flag) == IF flag = "None" THEN req ELSE [req EXCEPT !.required = (flag = "True")]

\* RequirementsManager.add of one BumpRequirement
add(M, req, flag) == [M EXCEPT !.requirements[req.n] = AddTo(@, Flagged(req, flag), 1)]

\* RequirementsManager.__init__: the requirements given are added one by one
RECURSIVE Constructed(_, _)
Constructed(M, reqs) ==
  IF reqs = <<>> THEN M ELSE Constructed(add(M, Head(reqs), "None"), Tail(reqs))

\* the first ledger entry only (C26 fails with it)
ReplayFirst(req_man, checked, i) ==
  IF checked = <<>> THEN [m |-> req_man, ok |-> FALSE]
  ELSE check(req_man, checked[1].ctx, checked[1].version)

\* satisfied_by_checked, line 197: any(...) calls req_man.check with the entries of the
\* ledger in turn and stops at the first call that returns True
RECURSIVE Replay(_, _, _)
Replay(req_man, checked, i) ==
  IF i > Len(checked) THEN [m |-> req_man, ok |-> FALSE]
  ELSE IF check(req_man, checked[i].ctx, checked[i].version).ok
  THEN check(req_man, checked[i].ctx, checked[i].version)
  ELSE Replay(check(req_man, checked[i].ctx, checked[i].version).m, checked, i + 1)

\* what the replay leaves: req is the object RequirementsManager([req]) holds, the
\* BumpRequirement of the caller itself (add, line 142, appends it as it is)
Replayed(M, n, replay) == [m |-> M, ok |-> replay.ok, req |-> replay.m.requirements[n][1]]

\* RequirementsManager.satisfied_by_checked of a BumpRequirement: [m |-> the manager
\* afterwards, ok |-> the result, req |-> the requirement afterwards]
satisfied_by_checked(M, req) ==
  Replayed(M, req.n, Replay(Constructed(EmptyManager, <<req>>), M.checked, 1))

\* ------------------------------------------------------------ package index
\* the index is name -> the set of released versions
Highest(S) == CHOOSE v \in S : \A w \in S : w <= v
LastByText(S) == CHOOSE v \in S : \A w \in S : StrKey(w) <= StrKey(v)

\* PyPI.all_package_versions: the releases, descending by their text
RECURSIVE SortedDesc(_)
SortedDesc(S) ==
  IF S = {} THEN <<>> ELSE <<LastByText(S)>> \o SortedDesc(S \ {LastByText(S)})

all_package_versions(idx, n) == IF n \in DOMAIN idx THEN SortedDesc(idx[n]) ELSE <<>>

\* latest_package_version by the order of the version texts (C9 fails with it)
latest_by_text(idx, n) ==
  IF n \in DOMAIN idx /\ idx[n] # {} THEN LastByText(idx[n]) ELSE None

\* PyPI.latest_package_version: info['info']['version'], the highest release; None
\* when the index has no info for the package
latest_package_version(idx, n) ==
  IF n \in DOMAIN idx /\ idx[n] # {} THEN Highest(idx[n]) ELSE None

\* lines 398-400: the first version within every requirement (0: none)
RECURSIVE FirstWithin(_, _, _)
FirstWithin(all, reqs, i) ==
  IF i > Len(all) THEN 0
  ELSE IF \A k \in 1..Len(reqs) : Contains(all[i], reqs[k].s) THEN i
  ELSE FirstWithin(all, reqs, i + 1)

\* line 404: all_package_versions[:10]
TopListed == 10

\* Latest listing every published version (C22 fails with it)
LatestAll(all) == all

\* line 404: the versions the error lists
Latest(all) == SubSeq(all, 1, IF Len(all) < TopListed THEN Len(all) ELSE TopListed)

\* lines 400-406: the version found, or the error and the versions it lists
VersionFound(all, i) ==
  IF i # 0 THEN [err |-> "", version |-> all[i], listed |-> <<>>]
  ELSE IF all # <<>>
  THEN [err |-> "NoVersionSatisfies", version |-> None, listed |-> Latest(all)]
  ELSE [err |-> "NoPublishedVersions", version |-> None, listed |-> <<>>]

VersionsSearched(all, reqs) == VersionFound(all, FirstWithin(all, reqs, 1))

\* AbstractBumper.latest_version_for_requirements: [err, version]
latest_version_for_requirements(idx, reqs) ==
  VersionsSearched(all_package_versions(idx, reqs[1].n), reqs)

\* AbstractBumper.package_changes + requirements_for_changes: the requirements the
\* changelog names between two versions; a downgrade's changes start with '-' and
\* yield none
requirements_for_changes(log, n, current_version, new_version) ==
  IF current_version > new_version THEN <<>> ELSE log[n]

\* ----------------------------------------------------------- AbstractBumper
NoBump == Bump("", <<>>)
Returned(b) == [kind |-> (IF b = NoBump THEN "none" ELSE "bump"), err |-> "", bump |-> b]
Raised(e) == [kind |-> "error", err |-> e, bump |-> NoBump]

\* existing_req and existing_req.specs and existing_req.specs[0][0] == '==' and
\* existing_req.specs[0][1]
PinnedVersion(existing_req) ==
  IF existing_req # NoReq /\ ReqIsPin(existing_req.s) THEN existing_req.s[1][2] ELSE None

StrExisting(existing_req) ==
  IF existing_req = NoReq THEN NoneStr ELSE StrOf(existing_req.n, existing_req.s)

\* Discard that keeps every bump (C24 fails with it)
DiscardNone(existing_req, b) == Returned(b)

\* _bump, line 522: a bump whose text is the existing requirement's is discarded
Discard(existing_req, b) ==
  IF b # NoBump /\ StrBump(b) = StrExisting(existing_req) THEN Returned(NoBump)
  ELSE Returned(b)

\* BumpDetail without line 513's test for a pin target (C28 fails with it)
BumpDetailAnyTarget(log, pin, dt, existing_req, b, current_version, new_version) ==
  IF b # NoBump /\ current_version # None /\ new_version # None /\ dt
  THEN Discard(existing_req,
               require(b, requirements_for_changes(log, b.name, current_version,
                                                   new_version)))
  ELSE Discard(existing_req, b)

\* _bump, lines 510-522: the changelog's requirements, and the no-op discard
BumpDetail(log, pin, dt, existing_req, b, current_version, new_version) ==
  IF b # NoBump /\ current_version # None /\ new_version # None /\ dt /\ pin
  THEN Discard(existing_req,
               require(b, requirements_for_changes(log, b.name, current_version,
                                                   new_version)))
  ELSE Discard(existing_req, b)

\* _bump, lines 499-508
LatestTo(log, pin, dt, existing_req, name, cur, new) ==
  IF cur = new THEN Returned(NoBump)
  ELSE IF new = None THEN Raised("NoPublishedVersion")
  ELSE BumpDetail(log, pin, dt, existing_req, Bump(name, <<(<<"==", new>>)>>), cur, new)

\* BumpLatest without line 495's test that the existing requirement is a pin
\* (C10 fails with it)
BumpLatestAny(idx, log, pin, dt, existing_req, name) ==
  IF existing_req # NoReq \/ pin
  THEN LatestTo(log, pin, dt, existing_req, name, PinnedVersion(existing_req),
                latest_package_version(idx, name))
  ELSE Returned(NoBump)

\* _bump, lines 495-508 (BL: pin to latest), entered when no bump was made yet
BumpLatest(idx, log, pin, dt, existing_req, name) ==
  IF (existing_req # NoReq /\ ReqIsPin(existing_req.s)) \/ (pin /\ existing_req = NoReq)
  THEN LatestTo(log, pin, dt, existing_req, name,
                (IF existing_req # NoReq THEN existing_req.s[1][2] ELSE None),
                latest_package_version(idx, name))
  ELSE Returned(NoBump)

\* _bump, lines 461-470 (BLR: a pin target, the latest version within the requirements)
BumpWithin(log, pin, dt, existing_req, name, found) ==
  IF found.err # "" THEN Raised(found.err)
  ELSE IF PinnedVersion(existing_req) = found.version THEN Returned(NoBump)
  ELSE BumpDetail(log, pin, dt, existing_req, Bump(name, <<(<<"==", found.version>>)>>),
                  PinnedVersion(existing_req), found.version)

\* VersionOf taking the first specifier of several (C12 fails with it)
VersionOfFirst(specs) == IF specs # <<>> THEN <<specs[1]>> ELSE <<>>

\* _bump, lines 487-492: the new specifier of the bump
VersionOf(specs) ==
  IF Len(specs) > 1 THEN specs ELSE IF specs # <<>> THEN <<specs[1]>> ELSE <<>>

\* _bump, lines 476-493 (BR: bump to the one requirement)
BumpTo(log, pin, dt, existing_req, name, specs, found) ==
  IF found.err # "" THEN Raised(found.err)
  ELSE IF PinnedVersion(existing_req)
          = (IF ReqIsPin(specs) THEN specs[1][2] ELSE found.version)
  THEN Returned(NoBump)
  ELSE BumpDetail(log, pin, dt, existing_req, Bump(name, VersionOf(specs)),
                  PinnedVersion(existing_req),
                  (IF ReqIsPin(specs) THEN specs[1][2] ELSE found.version))

\* the texts of the requirements, as ', '.join(str(r) for r in reqs) lists them
RECURSIVE StrsOf(_)
StrsOf(reqs) ==
  IF reqs = <<>> THEN <<>> ELSE <<StrOf(Head(reqs).n, Head(reqs).s)>> \o StrsOf(Tail(reqs))

\* Conflict naming the first requirement only (C21 fails with it)
ConflictFirst(name, bump_reqs) ==
  [kind |-> "error", err |-> "Conflict", bump |-> NoBump, name |-> name,
   named |-> StrsOf(<<bump_reqs[1]>>)]

\* _bump, lines 472-473: 'Not sure which requirement to use for <name>: <requirements>'
Conflict(name, bump_reqs) ==
  [kind |-> "error", err |-> "Conflict", bump |-> NoBump, name |-> name,
   named |-> StrsOf(bump_reqs)]

\* _bump, line 453
NameOf(existing_req, bump_reqs) ==
  IF existing_req # NoReq THEN existing_req.n ELSE bump_reqs[1].n

\* _bump whose line 452 asks for any bump requirement, required or not (C20 fails
\* with it)
_bump_any(idx, log, pin, dt, existing_req, bump_reqs) ==
  IF ~(existing_req # NoReq \/ bump_reqs # <<>>)
  THEN Returned(NoBump)
  ELSE IF bump_reqs = <<>>
  THEN BumpLatest(idx, log, pin, dt, existing_req, NameOf(existing_req, bump_reqs))
  ELSE IF pin /\ (Len(bump_reqs) > 1
                  \/ (bump_reqs[1].s # <<>> /\ bump_reqs[1].s[1][1] # "=="))
  THEN BumpWithin(log, pin, dt, existing_req, NameOf(existing_req, bump_reqs),
                  latest_version_for_requirements(idx, bump_reqs))
  ELSE IF Len(bump_reqs) > 1
  THEN Conflict(NameOf(existing_req, bump_reqs), bump_reqs)
  ELSE IF bump_reqs[1].s # <<>> \/ ~(existing_req # NoReq \/ pin \/ bump_reqs[1].s # <<>>)
  THEN BumpTo(log, pin, dt, existing_req, NameOf(existing_req, bump_reqs), bump_reqs[1].s,
              latest_version_for_requirements(idx, bump_reqs))
  ELSE BumpLatest(idx, log, pin, dt, existing_req, NameOf(existing_req, bump_reqs))

\* AbstractBumper._bump: existing_req is a requirement or NoReq, bump_reqs a list of
\* BumpRequirement (empty for None): [kind, err, bump]
_bump(idx, log, pin, dt, existing_req, bump_reqs) ==
  IF ~(existing_req # NoReq \/ (\E i \in 1..Len(bump_reqs) : bump_reqs[i].required))
  THEN Returned(NoBump)
  ELSE IF bump_reqs = <<>>
  THEN BumpLatest(idx, log, pin, dt, existing_req, NameOf(existing_req, bump_reqs))
  ELSE IF pin /\ (Len(bump_reqs) > 1
                  \/ (bump_reqs[1].s # <<>> /\ bump_reqs[1].s[1][1] # "=="))
  THEN BumpWithin(log, pin, dt, existing_req, NameOf(existing_req, bump_reqs),
                  latest_version_for_requirements(idx, bump_reqs))
  ELSE IF Len(bump_reqs) > 1
  THEN Conflict(NameOf(existing_req, bump_reqs), bump_reqs)
  ELSE IF bump_reqs[1].s # <<>> \/ ~(existing_req # NoReq \/ pin \/ bump_reqs[1].s # <<>>)
  THEN BumpTo(log, pin, dt, existing_req, NameOf(existing_req, bump_reqs), bump_reqs[1].s,
              latest_version_for_requirements(idx, bump_reqs))
  ELSE BumpLatest(idx, log, pin, dt, existing_req, NameOf(existing_req, bump_reqs))

\* names in the order of sorted(...)
FirstName(S) == CHOOSE n \in S : \A m \in S : NameRank(n) <= NameRank(m)

RECURSIVE SortNames(_)
SortNames(S) == IF S = {} THEN <<>> ELSE <<FirstName(S)>> \o SortNames(S \ {FirstName(S)})

\* d[k] = v on a dict held as a function
Put(d, k, v) == [x \in (DOMAIN d) \cup {k} |-> IF x = k THEN v ELSE d[x]]

\* all(r.required_by is None for r in reqs)
AllFromUser(reqs) == \A i \in 1..Len(reqs) : reqs[i].required_by = NoneStr

\* bump, lines 544-546: the bump is recorded and checked off
Recorded(st, m, b) ==
  [st EXCEPT !.m = check(m, CtxBump(b), None).m, !.bumps = Put(st.bumps, b.name, b)]

\* bump, line 549: whether the error of _bump for an existing requirement is raised again
ReraiseExisting(m, n) ==
  ManagerLen(m) = 0 \/ (ManagerGet(m, n) # <<>> /\ AllFromUser(ManagerGet(m, n)))

\* bump, lines 541-552: the outcome r of _bump for the existing requirement n
AfterExisting(st, m1, n, r) ==
  IF r.kind = "bump" THEN Recorded(st, m1, r.bump)
  ELSE IF r.kind = "error" /\ ReraiseExisting(m1, n) THEN [st EXCEPT !.m = m1, !.err = r.err]
  ELSE IF r.kind = "error" THEN [st EXCEPT !.m = m1, !.warned = @ \cup {n}]
  ELSE [st EXCEPT !.m = m1]

\* bump, lines 539-542, with m1 the manager after check(existing_req)
BumpExisting(idx, log, pin, dt, existing_req, st, m1) ==
  AfterExisting(st, m1, existing_req.n,
                _bump(idx, log, pin, dt, existing_req, ManagerGet(m1, existing_req.n)))

StepExisting(idx, log, pin, dt, existing_req, st) ==
  BumpExisting(idx, log, pin, dt, existing_req, st,
               check(st.m, CtxReq(existing_req), None).m)

\* Skips with line 536's test left out (C11 fails with it)
SkipsNone(M, name) == FALSE

\* bump, lines 536-537: bump requirements are given and hold no entry of the name
Skips(M, name) == ManagerLen(M) > 0 /\ ~Manages(M, name)

\* AbstractBumper.bump, lines 535-552: the pass over the existing requirements, from
\* the i-th name of `names` on.  st = [err, m, bumps]
RECURSIVE PassExisting(_, _, _, _, _, _, _, _)
PassExisting(idx, log, pin, dt, existing, names, i, st) ==
  IF i > Len(names) \/ st.err # "" THEN st
  ELSE IF Skips(st.m, names[i])
  THEN PassExisting(idx, log, pin, dt, existing, names, i + 1, st)
  ELSE PassExisting(idx, log, pin, dt, existing, names, i + 1,
                    StepExisting(idx, log, pin, dt,
                                 [n |-> names[i], s |-> existing[names[i]]], st))

\* RequirementsBumper.should_add
should_add(name) == TRUE

\* bump, line 565: whether the error of _bump for a requirement to add is raised again
ReraiseRequired(reqs) == AllFromUser(reqs)

\* bump, lines 557-568: the outcome r of _bump(None, reqs)
AfterRequired(st, reqs, r) ==
  IF r.kind = "bump" THEN Recorded(st, st.m, r.bump)
  ELSE IF r.kind = "error" /\ ReraiseRequired(reqs) THEN [st EXCEPT !.err = r.err]
  ELSE IF r.kind = "error" THEN [st EXCEPT !.warned = @ \cup {reqs[1].n}]
  ELSE st

\* AbstractBumper.bump, lines 554-568: the required requirements not bumped yet;
\* required is required_requirements() as it was when the loop began
RECURSIVE PassRequired(_, _, _, _, _, _, _, _)
PassRequired(idx, log, pin, dt, required, names, i, st) ==
  IF i > Len(names) \/ st.err # "" THEN st
  ELSE IF names[i] \in DOMAIN st.bumps \/ ~should_add(names[i])
  THEN PassRequired(idx, log, pin, dt, required, names, i + 1, st)
  ELSE PassRequired(idx, log, pin, dt, required, names, i + 1,
                    AfterRequired(st, required[names[i]],
                                  _bump(idx, log, pin, dt, NoReq, required[names[i]])))

RequiredNames(required) == SortNames({n \in Names : required[n] # <<>>})

AddRequired(idx, log, pin, dt, st, required) ==
  IF st.err # "" THEN st
  ELSE PassRequired(idx, log, pin, dt, required, RequiredNames(required), 1, st)

PassFrom(idx, log, pin, dt, st) ==
  AddRequired(idx, log, pin, dt, st, required_requirements(st.m))

\* AbstractBumper.bump, lines 533-568: existing is the target's requirements (name ->
\* specs), M the manager.  [err, m, bumps, warned]: the error raised ("" for none), the
\* manager afterwards, the bumps made (name -> Bump), and the names whose error was
\* logged (log.warn) instead of raised
BumpPass(idx, log, pin, dt, existing, M) ==
  PassFrom(idx, log, pin, dt,
           PassExisting(idx, log, pin, dt, existing, SortNames(DOMAIN existing), 1,
                        [err |-> "", m |-> M, bumps |-> <<>>, warned |-> {}]))

\* ------------------------------------------------------- RequirementsBumper
\* A file's content is [lines, eol]: its lines, and whether the last one ends with a
\* newline.  A line is a requirement (k = "req": name n, specifiers s), a comment
\* (k = "com", its text in n) or text that does not parse as a requirement (k = "bad").
ReqLine(n, specs) == [k |-> "req", n |-> n, s |-> specs]
ComLine(text) == [k |-> "com", n |-> text, s |-> <<>>]
BadLine == [k |-> "bad", n |-> "-r", s |-> <<>>]
EmptyContent == [lines |-> <<>>, eol |-> FALSE]

\* the truth value of a content string
Truthy(c) == c.lines # <<>> \/ c.eol

\* RequirementsBumper.likes / should_pin
likes(target) == target \in {"requirements.txt", "pinned.txt"}
should_pin(target) == target = "pinned.txt"

\* AbstractBumper.__init__ + RequirementsBumper.__init__
NewBumper(target) ==
  [target |-> target, bumps |-> {},
   original |-> [read |-> FALSE, c |-> EmptyContent],
   reqs |-> <<>>, comments |-> <<>>]

\* if self._original_target_content (its truth value)
HoldsOriginal(bumper) == bumper.original.read /\ Truthy(bumper.original.c)

\* AbstractBumper.original_target_content: read the file unless a non-empty content
\* is already held
original_target_content(bumper, c) ==
  IF ~HoldsOriginal(bumper) THEN [bumper EXCEPT !.original = [read |-> TRUE, c |-> c]]
  ELSE bumper

\* requirements, lines 633-638: a requirement line
ParsedLine(st, line) ==
  [st EXCEPT !.reqs = Put(st.reqs, line.n, line.s),
             !.comments = IF st.pending # <<>> THEN Put(st.comments, line.n, st.pending)
                          ELSE st.comments,
             !.pending = <<>>]

\* RequirementsBumper.requirements, lines 628-638: parse from the i-th line on.
\* st = [err, reqs, comments, pending]
RECURSIVE ParseLines(_, _, _)
ParseLines(lines, i, st) ==
  IF i > Len(lines) \/ st.err # "" THEN st
  ELSE IF lines[i].k = "com"
  THEN ParseLines(lines, i + 1, [st EXCEPT !.pending = Append(@, lines[i])])
  ELSE IF lines[i].k = "bad"
  THEN [st EXCEPT !.err = "ValueError"]
  ELSE ParseLines(lines, i + 1, ParsedLine(st, lines[i]))

Parsed(bumper, st) ==
  [err |-> st.err, bumper |-> [bumper EXCEPT !.reqs = st.reqs, !.comments = st.comments]]

ParseOriginal(bumper) ==
  Parsed(bumper, ParseLines(bumper.original.c.lines, 1,
                            [err |-> "", reqs |-> <<>>, comments |-> bumper.comments,
                             pending |-> <<>>]))

\* RequirementsBumper.requirements on the target's content c: [err, bumper]
requirements(bumper, c) ==
  IF bumper.reqs # <<>> THEN [err |-> "", bumper |-> bumper]
  ELSE ParseOriginal(original_target_content(bumper, c))

\* the text written without the comment blocks
RECURSIVE WriteLinesBare(_, _, _, _)
WriteLinesBare(reqs, comments, names, i) ==
  IF i > Len(names) THEN <<>>
  ELSE <<ReqLine(names[i], reqs[names[i]])>> \o WriteLinesBare(reqs, comments, names, i + 1)

\* update_requirements, lines 647-651: the text written
RECURSIVE WriteLines(_, _, _, _)
WriteLines(reqs, comments, names, i) ==
  IF i > Len(names) THEN <<>>
  ELSE (IF names[i] \in DOMAIN comments THEN comments[names[i]] ELSE <<>>)
       \o <<ReqLine(names[i], reqs[names[i]])>>
       \o WriteLines(reqs, comments, names, i + 1)

\* update_requirements, lines 644-645: self.bumps is iterated in `order`, a sequence
\* holding every bump of the set once
RECURSIVE ApplyBumps(_, _, _)
ApplyBumps(reqs, order, i) ==
  IF i > Len(order) THEN reqs
  ELSE ApplyBumps(Put(reqs, order[i].name, as_requirement(order[i]).s), order, i + 1)

Written(bumper, reqs) ==
  [bumper |-> [bumper EXCEPT !.reqs = reqs],
   c |-> [lines |-> WriteLines(reqs, bumper.comments, SortNames(DOMAIN reqs), 1),
          eol |-> TRUE]]

\* update_requirements without line 643's test on test_drive (C4 fails with it)
update_requirements_always(bumper, c, td, order) ==
  IF bumper.bumps # {} THEN Written(bumper, ApplyBumps(bumper.reqs, order, 1))
  ELSE [bumper |-> bumper, c |-> c]

\* RequirementsBumper.update_requirements: [bumper, c] afterwards
update_requirements(bumper, c, td, order) ==
  IF bumper.bumps # {} /\ ~td THEN Written(bumper, ApplyBumps(bumper.reqs, order, 1))
  ELSE [bumper |-> bumper, c |-> c]

\* AbstractBumper.reverse: the content of the target afterwards
reverse(bumper, c) == IF HoldsOriginal(bumper) THEN bumper.original.c ELSE c

\* the orders a set of bumps may be iterated in
Orders(S) ==
  {o \in [1..Cardinality(S) -> S] : \A x \in S : \E i \in 1..Cardinality(S) : o[i] = x}

\* bumps.values() as a list
ValuesOf(bs, names) == [i \in 1..Len(names) |-> bs[names[i]]]
BumpList(bs) == ValuesOf(bs, SortNames(DOMAIN bs))

\* a Bump as self.bumps holds it: its hash and equality are those of its text
BumpKey(b) == [name |-> b.name, new_version |-> b.new_version]

\* bump, lines 570-572
Bumped1(bumper, res) ==
  IF res.err # ""
  THEN [err |-> res.err, bumper |-> bumper, m |-> res.m, bumps |-> <<>>,
        warned |-> res.warned]
  ELSE [err |-> "", warned |-> res.warned,
        bumper |-> [bumper EXCEPT !.bumps = @ \cup {BumpKey(res.bumps[n]) : n \in DOMAIN res.bumps}],
        m |-> res.m, bumps |-> BumpList(res.bumps)]

BumpParsed(idx, log, dt, rq, M) ==
  IF rq.err # ""
  THEN [err |-> rq.err, bumper |-> rq.bumper, m |-> M, bumps |-> <<>>, warned |-> {}]
  ELSE Bumped1(rq.bumper, BumpPass(idx, log, should_pin(rq.bumper.target), dt,
                                   rq.bumper.reqs, M))

\* AbstractBumper.bump, lines 524-572, on the target's content c, with the manager M:
\* [err, bumper, m, bumps, warned]
bump(idx, log, dt, bumper, c, M) == BumpParsed(idx, log, dt, requirements(bumper, c), M)

\* ------------------------------------------------------------- BumperDriver
VARIABLES
  targets,             \* self.targets
  full_throttle,       \* self.full_throttle
  detail,              \* self.detail
  test_drive,          \* self.test_drive
  filter_requirements, \* bump's argument: the filter, a list of requirements
  required,            \* bump's argument: add the filter's names where missing
  index,               \* the package index: name -> released versions
  changelog,           \* name -> the requirements its changelog names
  disk,                \* target -> [exists, c]: the files
  disk0,               \* the files when the run began
  pc,                  \* the position of the run
  found_targets,
  ti,                  \* the index of the current target in found_targets
  loops,               \* rounds of the while loop made for the current target
  bump_requirements,   \* name -> BumpRequirement
  tnames,              \* the names target_bump_requirements holds
  filter_matched,
  bumpers,             \* the bumpers made so far
  target_bumpers,      \* the current target's bumpers, as indexes into bumpers
  bumps,               \* the bumps made so far
  error,               \* the error bump raised ("" for none)
  unmet,               \* the requirement the error names (NoReq for none)
  use_force,           \* whether the error carries the --force hint
  run,                 \* 1: the first run; 2: a run made right after it
  disk1,               \* the files when the second run began
  man,                 \* a RequirementsManager built by calls of add
  adds,                \* the calls of add made
  result,              \* what a bumper's bump made of man
  calls,               \* the calls made, with their arguments
  debug,               \* args.debug of the command line
  ret                  \* what the last call returned or raised

vars ==
  <<targets, full_throttle, detail, test_drive, filter_requirements, required, index,
    changelog, disk, disk0, pc, found_targets, ti, loops, bump_requirements, tnames,
    filter_matched, bumpers, target_bumpers, bumps, error, unmet, use_force, run, disk1,
    man, adds, result, calls, debug, ret>>

manager == <<man, adds, result, calls, ret>>

driver ==
  <<pc, found_targets, ti, loops, bump_requirements, tnames, filter_matched, bumpers,
    target_bumpers, bumps, error, unmet, use_force, run, disk1>>

inputs ==
  <<targets, full_throttle, detail, test_drive, filter_requirements, required, index,
    changelog, disk0, debug>>

\* line 82: dict([(r.project_name, BumpRequirement(r, required=required)) ...])
RECURSIVE FilterDict(_, _, _, _)
FilterDict(reqs, req, i, d) ==
  IF i > Len(reqs) THEN d
  ELSE FilterDict(reqs, req, i + 1,
                  Put(d, reqs[i].n, BumpRequirement(reqs[i].n, ParseSpecs(reqs[i].s), req)))

\* line 74
Exists(t) == disk[t].exists
FoundTargets(ts) == SelectSeq(ts, Exists)

\* lines 74-86
Start ==
  /\ pc = "start"
  /\ found_targets' = FoundTargets(targets)
  /\ IF FoundTargets(targets) = <<>>
     THEN /\ error' = "NoTargetsFound"
          /\ pc' = "done"
          /\ UNCHANGED <<bump_requirements, filter_matched>>
     ELSE /\ error' = ""
          /\ pc' = "target"
          /\ bump_requirements' = FilterDict(filter_requirements, required, 1, <<>>)
          /\ filter_matched' = (filter_requirements = <<>>)
  /\ UNCHANGED <<inputs, manager, disk, ti, loops, tnames, bumpers, target_bumpers, bumps,
                 unmet, use_force, run, disk1>>

\* lines 90-94: the next target of the for loop
NextTarget ==
  /\ pc = "target"
  /\ IF ti > Len(found_targets)
     THEN pc' = "validate" /\ UNCHANGED <<target_bumpers, tnames, loops>>
     ELSE /\ pc' = "round"
          /\ target_bumpers' = <<>>
          /\ tnames' = DOMAIN bump_requirements
          /\ loops' = 0
  /\ UNCHANGED <<inputs, manager, disk, found_targets, ti, bump_requirements, filter_matched,
                 bumpers, bumps, error, unmet, use_force, run, disk1>>

Target == found_targets[ti]

\* lines 96-102: no bumper model likes the target, and the loop continues
RoundNoBumper ==
  /\ pc = "round"
  /\ loops < MaxLoops
  /\ target_bumpers = <<>>
  /\ ~likes(Target)
  /\ loops' = loops + 1
  /\ UNCHANGED <<inputs, manager, disk, pc, found_targets, ti, bump_requirements, tnames,
                 filter_matched, bumpers, target_bumpers, bumps, error, unmet, use_force, run,
                 disk1>>

\* line 109: the bump requirements handed to the bumper.  Each name holds the one
\* BumpRequirement of the dict, the very object, so that a flag check flips is
\* flipped in the dict
ManagerOfDict(d, names) ==
  [requirements |-> [n \in Names |-> IF n \in names /\ n \in DOMAIN d THEN <<d[n]>> ELSE <<>>],
   matched_name |-> FALSE, checked |-> <<>>]

FlagsBack(d, M, names) ==
  [n \in DOMAIN d |-> IF n \in names THEN M.requirements[n][1] ELSE d[n]]

\* line 112: bumper.found_bump_requirements
found_bump_requirements(M) == M.matched_name

\* line 114: itertools.chain(*[b.requirements for b in target_bumps])
RECURSIVE ChainRequirements(_)
ChainRequirements(bs) ==
  IF bs = <<>> THEN <<>> ELSE Head(bs).requirements \o ChainRequirements(Tail(bs))

\* lines 117-118
Superseded(old_req, new_req) ==
  \/ StrOf(old_req.n, old_req.s) = StrOf(new_req.n, new_req.s)
  \/ new_req.s # <<>> /\ old_req.s = <<>>
  \/ new_req.s # <<>> /\ new_req.s[1][1] = "=="
       /\ (old_req.s = <<>> \/ old_req.s[1][1] = "==")

Del(d, k) == [x \in (DOMAIN d) \ {k} |-> d[x]]

DropSuperseded(d, new_req) ==
  IF new_req.n \in DOMAIN d /\ Superseded(d[new_req.n], new_req) THEN Del(d, new_req.n)
  ELSE d

\* lines 114-120.  st = [br |-> bump_requirements, new |-> new_target_bump_requirements]
RECURSIVE NewRequirements(_, _, _)
NewRequirements(chain, i, st) ==
  IF i > Len(chain) THEN st
  ELSE NewRequirements(chain, i + 1,
                       [br |-> DropSuperseded(st.br, chain[i]),
                        new |-> Put(st.new, chain[i].n, chain[i])])

\* line 125: bump_requirements.update(target_bump_requirements)
Update(d, e) == [x \in (DOMAIN d) \cup (DOMAIN e) |-> IF x \in DOMAIN e THEN e[x] ELSE d[x]]

\* lines 122-127
RoundEnd(mg) ==
  /\ loops' = loops + 1
  /\ IF DOMAIN mg.new # {}
     THEN /\ bump_requirements' = Update(mg.br, mg.new)
          /\ tnames' = DOMAIN mg.new
          /\ UNCHANGED <<pc, ti>>
     ELSE /\ bump_requirements' = mg.br
          /\ tnames' = {}
          /\ pc' = "target"
          /\ ti' = ti + 1

KeysOf(bs) == [i \in 1..Len(bs) |-> BumpKey(bs[i])]

\* lines 109-127, the pass made (p) and the target written (w)
RoundDone(bs, bi, p, w) ==
  /\ disk' = [disk EXCEPT ![Target].c = w.c]
  /\ bumpers' = [bs EXCEPT ![bi] = w.bumper]
  /\ target_bumpers' = <<bi>>
  /\ bumps' = bumps \o KeysOf(p.bumps)
  /\ filter_matched' = (filter_matched \/ found_bump_requirements(p.m) \/ Len(p.bumps) > 0)
  /\ RoundEnd(NewRequirements(ChainRequirements(p.bumps), 1,
                              [br |-> FlagsBack(bump_requirements, p.m, tnames),
                               new |-> <<>>]))
  /\ UNCHANGED <<error, unmet, use_force>>

\* line 109 raised: the run goes on at line 190
RoundRaised(bs, bi, p) ==
  /\ error' = p.err
  /\ pc' = "except"
  /\ bumpers' = [bs EXCEPT ![bi] = p.bumper]
  /\ target_bumpers' = <<bi>>
  /\ bump_requirements' = FlagsBack(bump_requirements, p.m, tnames)
  /\ UNCHANGED <<disk, ti, loops, tnames, filter_matched, bumps, unmet, use_force>>

\* the bumper writes its target when its pass is made: update_requirements, with the
\* set self.bumps iterated in any order
RoundPassed(bs, bi, p) ==
  IF p.err # "" THEN RoundRaised(bs, bi, p)
  ELSE \E order \in Orders(p.bumper.bumps) :
         RoundDone(bs, bi, p, update_requirements(p.bumper, disk[Target].c, test_drive, order))

RoundWith(bs, bi) ==
  RoundPassed(bs, bi, bump(index, changelog, detail, bs[bi], disk[Target].c,
                           ManagerOfDict(bump_requirements, tnames)))

\* lines 96-127: one round of the while loop for a target a bumper model likes
RoundBump ==
  /\ pc = "round"
  /\ loops < MaxLoops
  /\ likes(Target)
  /\ IF target_bumpers = <<>>
     THEN RoundWith(Append(bumpers, NewBumper(Target)), Len(bumpers) + 1)
     ELSE RoundWith(bumpers, target_bumpers[1])
  /\ UNCHANGED <<inputs, manager, found_targets, run, disk1>>

\* line 135: dict([b.name, b] for b in bumps), the last bump of a name
RECURSIVE Bumped(_, _, _)
Bumped(bs, i, d) == IF i > Len(bs) THEN d ELSE Bumped(bs, i + 1, Put(d, bs[i].name, bs[i]))

\* line 141, bump.satisfies(req): the bump's pinned version is within the
\* requirement, or the bump reads as the requirement does
satisfies(b, req) ==
  IF BumpIsPin(b.new_version) THEN Contains(b.new_version[1][2], req.s)
  ELSE StrBump(b) = StrOf(req.n, req.s)

\* UnmetIn without line 132's filter on r.required (C3 fails with it)
UnmetAny(d, bumped) ==
  {n \in DOMAIN d : ~(n \in DOMAIN bumped /\ satisfies(bumped[n], d[n]))}

\* lines 132-142: the required bump requirements no bump satisfies
UnmetIn(d, bumped) ==
  {n \in DOMAIN d : d[n].required /\ ~(n \in DOMAIN bumped /\ satisfies(bumped[n], d[n]))}

Unmet == UnmetIn(bump_requirements, Bumped(bumps, 1, <<>>))

\* FilterMissed that never holds (C6 fails with it)
FilterNeverMissed(matched) == FALSE

\* line 161: not filter_matched
FilterMissed(matched) == ~matched

\* a raise inside the try block
Fail(e, req) ==
  /\ error' = e
  /\ unmet' = req
  /\ use_force' = (req # NoReq /\ req.required_by # NoneStr)
  /\ pc' = "except"

\* lines 129-188: after the targets
Validate ==
  /\ pc = "validate"
  /\ IF bumpers = <<>> THEN Fail("NoBumpersFound", NoReq)
     ELSE IF Unmet # {} /\ ~full_throttle
     THEN \E n \in Unmet : Fail("CouldNotBeMet", bump_requirements[n])
     ELSE IF FilterMissed(filter_matched) THEN Fail("NoneFound", NoReq)
     ELSE pc' = "done" /\ UNCHANGED <<error, unmet, use_force>>
  /\ UNCHANGED <<inputs, manager, disk, found_targets, ti, loops, bump_requirements, tnames,
                 filter_matched, bumpers, target_bumpers, bumps, run, disk1>>

\* line 192: map(lambda b: b.reverse(), bumpers)
RECURSIVE ReverseAll(_, _, _)
ReverseAll(bs, i, d) ==
  IF i > Len(bs) THEN d
  ELSE ReverseAll(bs, i + 1,
                  [d EXCEPT ![bs[i].target].c = reverse(bs[i], d[bs[i].target].c)])

\* lines 190-193
Except ==
  /\ pc = "except"
  /\ disk' = IF ~test_drive /\ bumps # <<>> THEN ReverseAll(bumpers, 1, disk) ELSE disk
  /\ pc' = "done"
  /\ UNCHANGED <<inputs, manager, found_targets, ti, loops, bump_requirements, tnames,
                 filter_matched, bumpers, target_bumpers, bumps, error, unmet, use_force, run,
                 disk1>>

\* bump is run again, with the same arguments, right after a run without a filter
\* that returned
SecondRun ==
  /\ pc = "done"
  /\ run = 1
  /\ error = ""
  /\ filter_requirements = <<>>
  /\ run' = 2
  /\ disk1' = disk
  /\ pc' = "start"
  /\ found_targets' = <<>>
  /\ ti' = 1
  /\ loops' = 0
  /\ bump_requirements' = <<>>
  /\ tnames' = {}
  /\ filter_matched' = FALSE
  /\ bumpers' = <<>>
  /\ target_bumpers' = <<>>
  /\ bumps' = <<>>
  /\ UNCHANGED <<inputs, manager, disk, error, unmet, use_force>>

\* the command line's bump, lines 16-28: the attributes parse_args gives args
ParserDests == {"names", "add", "file", "force", "verbose", "dry_run", "debug"}

\* the command line's bump, lines 36-44: line 37 reads args.detail before the driver is
\* made; an error in the try block is re-raised in debug mode, else logged with exit 1
CliBump ==
  /\ pc = "cli"
  /\ IF "detail" \notin ParserDests
     THEN /\ error' = "AttributeError"
          /\ pc' = IF debug THEN "raised" ELSE "exit 1"
     ELSE /\ error' = error
          /\ pc' = "start"
  /\ UNCHANGED <<inputs, manager, disk, found_targets, ti, loops, bump_requirements, tnames,
                 filter_matched, bumpers, target_bumpers, bumps, unmet, use_force, run,
                 disk1>>

\* ------------------------------------------- a bumper given any manager
NoResult ==
  [err |-> "", bumper |-> NewBumper(""), m |-> EmptyManager, bumps |-> <<>>, warned |-> {}]

\* RequirementsManager.add
ManagerAdd(req, flag) ==
  /\ pc = "manager"
  /\ adds < MaxAdds
  /\ man' = add(man, req, flag)
  /\ adds' = adds + 1
  /\ UNCHANGED <<inputs, disk, driver, result, calls, ret>>

\* RequirementsManager.add, the call recorded with its arguments
AddCall(req, flag) ==
  /\ pc = "adds"
  /\ Len(calls) < MaxCalls
  /\ man' = add(man, req, flag)
  /\ calls' = Append(calls, [req |-> req, flag |-> flag])
  /\ UNCHANGED <<inputs, disk, driver, adds, result, ret>>

\* AbstractBumper._bump(existing_req, bump_reqs) of a bumper of the target
CallBump(existing_req, bump_reqs) ==
  /\ pc = "call"
  /\ ret' = _bump(index, changelog, should_pin(targets[1]), detail, existing_req, bump_reqs)
  /\ calls' = <<[op |-> "_bump", existing_req |-> existing_req, bump_reqs |-> bump_reqs]>>
  /\ pc' = "called"
  /\ UNCHANGED <<inputs, disk, found_targets, ti, loops, bump_requirements, tnames,
                 filter_matched, bumpers, target_bumpers, bumps, error, unmet, use_force,
                 run, disk1, man, adds, result>>

\* AbstractBumper.latest_version_for_requirements(reqs) of a bumper of the target
CallLatest(reqs) ==
  /\ pc = "call"
  /\ ret' = latest_version_for_requirements(index, reqs)
  /\ calls' = <<[op |-> "latest_version_for_requirements", reqs |-> reqs]>>
  /\ pc' = "called"
  /\ UNCHANGED <<inputs, disk, found_targets, ti, loops, bump_requirements, tnames,
                 filter_matched, bumpers, target_bumpers, bumps, error, unmet, use_force,
                 run, disk1, man, adds, result>>

\* RequirementsManager.check(context, version) of the manager
CallCheck(ctx, version) ==
  /\ pc = "checks"
  /\ Len(man.checked) < MaxChecks
  /\ man' = check(man, ctx, version).m
  /\ ret' = [kind |-> "check", ok |-> check(man, ctx, version).ok]
  /\ calls' = <<[op |-> "check", ctx |-> ctx, version |-> version]>>
  /\ UNCHANGED <<inputs, disk, driver, adds, result>>

\* RequirementsManager.satisfied_by_checked(req) of the manager
CallSatisfied(req) ==
  /\ pc = "checks"
  /\ man' = satisfied_by_checked(man, req).m
  /\ ret' = [kind |-> "satisfied_by_checked", ok |-> satisfied_by_checked(man, req).ok,
             req |-> satisfied_by_checked(man, req).req]
  /\ calls' = <<[op |-> "satisfied_by_checked", req |-> req]>>
  /\ pc' = "asked"
  /\ UNCHANGED <<inputs, disk, found_targets, ti, loops, bump_requirements, tnames,
                 filter_matched, bumpers, target_bumpers, bumps, error, unmet, use_force,
                 run, disk1, adds, result>>

\* AbstractBumper.bump(man) of a new bumper of the target
ManagerBump ==
  /\ pc = "manager"
  /\ result' = bump(index, changelog, detail, NewBumper(targets[1]), disk[targets[1]].c, man)
  /\ pc' = "bumped"
  /\ UNCHANGED <<inputs, disk, found_targets, ti, loops, bump_requirements, tnames,
                 filter_matched, bumpers, target_bumpers, bumps, error, unmet, use_force,
                 run, disk1, man, adds, calls, ret>>

\* ------------------------------------------------------------------- inputs
Pin(v) == <<(<<"==", v>>)>>
AtLeast(v) == <<(<<">=", v>>)>>
Above(v) == <<(<<">", v>>)>>

Req(n, specs) == [n |-> n, s |-> specs]

\* the lines a target file is made of
FileLines ==
  {ReqLine("a", <<>>), ReqLine("a", Pin(1)), ReqLine("a", Pin(MaxVer)),
   ReqLine("b", Pin(1)), ComLine("#"), BadLine}

SeqsUpTo(S, k) == UNION {[1..m -> S] : m \in 0..k}

Contents(k) ==
  {[lines |-> ls, eol |-> FALSE] : ls \in SeqsUpTo(FileLines, k)}
    \cup {[lines |-> <<>>, eol |-> TRUE]}

Absent == [exists |-> FALSE, c |-> EmptyContent]
File(c) == [exists |-> TRUE, c |-> c]

TargetNames == {"requirements.txt", "pinned.txt", "setup.cfg"}

\* the releases of a package: none, one, or every version
Releases == {{}, {1}, Versions}
Indexes == {[a |-> ra, b |-> rb] : ra \in Releases, rb \in {{}, Versions}}

NoChanges == [n \in Names |-> <<>>]
Changelogs ==
  {[a |-> la, b |-> lb] :
     la \in {<<>>, <<Req("b", <<>>)>>, <<Req("b", Pin(1))>>, <<Req("b", Above(MaxVer))>>},
     lb \in {<<>>, <<Req("a", <<>>)>>}}

\* a range: several specifiers, none of them a pin
Range == <<(<<">=", 1>>), (<<"<=", 2>>)>>

Filters ==
  {<<>>, <<Req("a", <<>>)>>, <<Req("a", Pin(1))>>, <<Req("a", Above(MaxVer))>>,
   <<Req("b", <<>>)>>, <<Req("a", <<>>), Req("b", Above(MaxVer))>>,
   <<Req("b", AtLeast(MaxVer)), Req("a", <<>>)>>, <<Req("a", Range)>>}

\* one target file, changelogs not consulted
InitOneFile ==
  /\ targets \in {<<"requirements.txt">>, <<"pinned.txt">>}
  /\ \E c \in Contents(MaxLines) :
       disk = [t \in TargetNames |-> IF t = targets[1] THEN File(c) ELSE Absent]
  /\ index \in Indexes
  /\ changelog = NoChanges
  /\ filter_requirements \in Filters
  /\ required \in (IF filter_requirements = <<>> THEN {FALSE} ELSE BOOLEAN)
  /\ test_drive \in BOOLEAN
  /\ detail = FALSE
  /\ full_throttle = FALSE

\* requirements.txt and pinned.txt, the targets of the command line
InitTwoFiles ==
  /\ targets = <<"requirements.txt", "pinned.txt">>
  /\ \E c1 \in Contents(1), c2 \in Contents(1) :
       disk = [t \in TargetNames |->
                 IF t = "requirements.txt" THEN File(c1)
                 ELSE IF t = "pinned.txt" THEN File(c2) ELSE Absent]
  /\ index \in Indexes
  /\ changelog = NoChanges
  /\ filter_requirements \in Filters
  /\ required \in (IF filter_requirements = <<>> THEN {FALSE} ELSE BOOLEAN)
  /\ test_drive \in BOOLEAN
  /\ detail = FALSE
  /\ full_throttle = FALSE

\* detail mode: the changelogs name requirements
InitDetail ==
  /\ targets \in {<<"pinned.txt">>, <<"pinned.txt", "requirements.txt">>}
  /\ \E ls \in {<<ReqLine("a", Pin(1))>>, <<ReqLine("a", Pin(1)), ReqLine("b", Pin(1))>>,
                <<ReqLine("b", Pin(MaxVer)), ReqLine("a", Pin(1))>>,
                <<ReqLine("a", Pin(1)), ReqLine("b", <<>>)>>},
        l2 \in {ReqLine("b", Pin(1)), ReqLine("b", <<>>)} :
       disk = [t \in TargetNames |->
                 IF t = "pinned.txt" THEN File([lines |-> ls, eol |-> FALSE])
                 ELSE IF t = "requirements.txt" /\ Len(targets) = 2
                 THEN File([lines |-> <<l2>>, eol |-> FALSE])
                 ELSE Absent]
  /\ index \in Indexes
  /\ changelog \in Changelogs
  /\ filter_requirements \in {<<>>, <<Req("a", <<>>)>>}
  /\ required = FALSE
  /\ test_drive \in BOOLEAN
  /\ detail = TRUE
  /\ full_throttle \in BOOLEAN

\* a target no bumper model likes, and targets that do not exist
InitOtherTargets ==
  /\ targets \in {<<"setup.cfg">>, <<"requirements.txt", "setup.cfg">>,
                  <<"setup.cfg", "requirements.txt">>, <<"requirements.txt", "pinned.txt">>}
  /\ \E e \in BOOLEAN, c \in Contents(1) :
       disk = [t \in TargetNames |->
                 IF t = "setup.cfg" /\ e /\ targets # <<"requirements.txt", "pinned.txt">>
                 THEN File(EmptyContent)
                 ELSE IF t = "requirements.txt" /\ Len(targets) = 2 /\ c.lines # <<>>
                 THEN File(c) ELSE Absent]
  /\ index = [a |-> Versions, b |-> Versions]
  /\ changelog = NoChanges
  /\ filter_requirements \in {<<>>, <<Req("a", <<>>)>>}
  /\ required = FALSE
  /\ test_drive \in BOOLEAN
  /\ detail = FALSE
  /\ full_throttle = FALSE

\* the driver before bump is called
InitDriver ==
  /\ disk0 = disk
  /\ disk1 = disk
  /\ run = 1
  /\ pc = "start"
  /\ found_targets = <<>>
  /\ ti = 1
  /\ loops = 0
  /\ bump_requirements = <<>>
  /\ tnames = {}
  /\ filter_matched = FALSE
  /\ bumpers = <<>>
  /\ target_bumpers = <<>>
  /\ bumps = <<>>
  /\ error = ""
  /\ unmet = NoReq
  /\ use_force = FALSE
  /\ man = EmptyManager
  /\ adds = 0
  /\ result = NoResult
  /\ calls = <<>>
  /\ debug = FALSE
  /\ ret = NoReturn

Init == (InitOneFile \/ InitTwoFiles \/ InitDetail \/ InitOtherTargets) /\ InitDriver

\* the runs whose targets may be files no bumper model likes
InitUnliked == InitOtherTargets /\ InitDriver

\* the requirements add is given: of the user, or required by a bump of a
AddedSpecs == {<<>>, Pin(1), AtLeast(1), Above(MaxVer)}
Added ==
  {[n |-> n, s |-> sp, required |-> r, required_by |-> by] :
     n \in Names, sp \in AddedSpecs, r \in BOOLEAN,
     by \in {NoneStr, StrOf("a", Pin(MaxVer))}}

ManagerInit ==
  /\ targets \in {<<"requirements.txt">>, <<"pinned.txt">>}
  /\ \E ls \in {<<>>, <<ReqLine("a", Pin(1))>>, <<ReqLine("a", <<>>)>>} :
       disk = [t \in TargetNames |->
                 IF t = targets[1] THEN File([lines |-> ls, eol |-> FALSE]) ELSE Absent]
  /\ index \in Indexes
  /\ changelog = NoChanges
  /\ filter_requirements = <<>>
  /\ required = FALSE
  /\ test_drive = FALSE
  /\ detail = FALSE
  /\ full_throttle = FALSE
  /\ disk0 = disk
  /\ disk1 = disk
  /\ run = 1
  /\ pc = "manager"
  /\ found_targets = <<>>
  /\ ti = 1
  /\ loops = 0
  /\ bump_requirements = <<>>
  /\ tnames = {}
  /\ filter_matched = FALSE
  /\ bumpers = <<>>
  /\ target_bumpers = <<>>
  /\ bumps = <<>>
  /\ error = ""
  /\ unmet = NoReq
  /\ use_force = FALSE
  /\ man = EmptyManager
  /\ adds = 0
  /\ result = NoResult
  /\ calls = <<>>
  /\ debug = FALSE
  /\ ret = NoReturn

ManagerNext ==
  \/ \E req \in Added, flag \in {"None", "True", "False"} : ManagerAdd(req, flag)
  \/ ManagerBump

ManagerSpec == ManagerInit /\ [][ManagerNext]_vars

\* a manager made of a list of requirements, and the calls of check and
\* satisfied_by_checked made on it
Managed ==
  {[n |-> "a", s |-> sp, required |-> r, required_by |-> NoneStr] :
     sp \in {<<>>, Pin(1), AtLeast(MaxVer)}, r \in BOOLEAN}
Contexts ==
  {CtxReq(Req("a", <<>>)), CtxReq(Req("a", Pin(1))), CtxReq(Req("a", AtLeast(MaxVer))),
   CtxReq(Req("b", Pin(1))), CtxBump(Bump("a", Pin(MaxVer))),
   CtxBump(Bump("a", AtLeast(MaxVer)))}

ChecksInit ==
  /\ run = 1
  /\ found_targets = <<>>
  /\ ti = 1
  /\ loops = 0
  /\ bump_requirements = <<>>
  /\ tnames = {}
  /\ filter_matched = FALSE
  /\ bumpers = <<>>
  /\ target_bumpers = <<>>
  /\ bumps = <<>>
  /\ error = ""
  /\ unmet = NoReq
  /\ use_force = FALSE
  /\ man \in {Constructed(EmptyManager, reqs) : reqs \in SeqsUpTo(Managed, MaxReqs)}
  /\ adds = 0
  /\ result = NoResult
  /\ calls = <<>>
  /\ debug = FALSE
  /\ ret = NoReturn
  /\ targets = <<"requirements.txt">>
  /\ disk = [t \in TargetNames |-> Absent]
  /\ index = [n \in Names |-> {}]
  /\ changelog = NoChanges
  /\ filter_requirements = <<>>
  /\ required = FALSE
  /\ test_drive = FALSE
  /\ detail = FALSE
  /\ full_throttle = FALSE
  /\ disk0 = disk
  /\ disk1 = disk
  /\ pc = "checks"

ChecksNext ==
  \/ \E ctx \in Contexts, version \in {None, MaxVer} : CallCheck(ctx, version)
  \/ \E req \in Managed : CallSatisfied(req)

ChecksSpec == ChecksInit /\ [][ChecksNext]_vars

\* an empty manager and the calls of add made on it
Called ==
  {[n |-> n, s |-> sp, required |-> r, required_by |-> by] :
     n \in Names, sp \in AddedSpecs \cup {Pin(MaxVer)}, r \in BOOLEAN,
     by \in {NoneStr, StrOf("a", Pin(MaxVer))}}

AddsInit ==
  /\ run = 1
  /\ found_targets = <<>>
  /\ ti = 1
  /\ loops = 0
  /\ bump_requirements = <<>>
  /\ tnames = {}
  /\ filter_matched = FALSE
  /\ bumpers = <<>>
  /\ target_bumpers = <<>>
  /\ bumps = <<>>
  /\ error = ""
  /\ unmet = NoReq
  /\ use_force = FALSE
  /\ man = EmptyManager
  /\ adds = 0
  /\ result = NoResult
  /\ calls = <<>>
  /\ debug = FALSE
  /\ ret = NoReturn
  /\ targets = <<"requirements.txt">>
  /\ disk = [t \in TargetNames |-> Absent]
  /\ index = [n \in Names |-> {}]
  /\ changelog = NoChanges
  /\ filter_requirements = <<>>
  /\ required = FALSE
  /\ test_drive = FALSE
  /\ detail = FALSE
  /\ full_throttle = FALSE
  /\ disk0 = disk
  /\ disk1 = disk
  /\ pc = "adds"

AddsNext == \E req \in Called, flag \in {"None", "True", "False"} : AddCall(req, flag)

AddsSpec == AddsInit /\ [][AddsNext]_vars

\* a manager made of a list of requirements and the calls of add made on it
MergeInit ==
  /\ run = 1
  /\ found_targets = <<>>
  /\ ti = 1
  /\ loops = 0
  /\ bump_requirements = <<>>
  /\ tnames = {}
  /\ filter_matched = FALSE
  /\ bumpers = <<>>
  /\ target_bumpers = <<>>
  /\ bumps = <<>>
  /\ error = ""
  /\ unmet = NoReq
  /\ use_force = FALSE
  /\ man \in {Constructed(EmptyManager, reqs) : reqs \in SeqsUpTo(Managed, MaxReqs)}
  /\ adds = 0
  /\ result = NoResult
  /\ calls = <<>>
  /\ debug = FALSE
  /\ ret = NoReturn
  /\ targets = <<"requirements.txt">>
  /\ disk = [t \in TargetNames |-> Absent]
  /\ index = [n \in Names |-> {}]
  /\ changelog = NoChanges
  /\ filter_requirements = <<>>
  /\ required = FALSE
  /\ test_drive = FALSE
  /\ detail = FALSE
  /\ full_throttle = FALSE
  /\ disk0 = disk
  /\ disk1 = disk
  /\ pc = "adds"

MergeSpec == MergeInit /\ [][calls = <<>> /\ AddsNext]_vars

\* the command line: --file or requirements.txt and pinned.txt, the names, the flags
CliInit ==
  /\ InitOneFile \/ InitTwoFiles \/ InitOtherTargets
  /\ Len(targets) = 1 \/ targets = <<"requirements.txt", "pinned.txt">>
  /\ debug \in BOOLEAN
  /\ disk0 = disk
  /\ disk1 = disk
  /\ run = 1
  /\ pc = "cli"
  /\ found_targets = <<>>
  /\ ti = 1
  /\ loops = 0
  /\ bump_requirements = <<>>
  /\ tnames = {}
  /\ filter_matched = FALSE
  /\ bumpers = <<>>
  /\ target_bumpers = <<>>
  /\ bumps = <<>>
  /\ error = ""
  /\ unmet = NoReq
  /\ use_force = FALSE
  /\ man = EmptyManager
  /\ adds = 0
  /\ result = NoResult
  /\ calls = <<>>
  /\ ret = NoReturn

CliSpec == CliInit /\ [][CliBump]_vars

\* a bumper of a target, the index and the changelogs, before a call of its methods
CallInit ==
  /\ targets \in {<<"requirements.txt">>, <<"pinned.txt">>}
  /\ disk = [t \in TargetNames |-> IF t = targets[1] THEN File(EmptyContent) ELSE Absent]
  /\ index \in {[a |-> ra, b |-> {}] : ra \in Releases \cup {1..(TopListed + 1)}}
  /\ changelog \in {[a |-> la, b |-> <<>>] :
                      la \in {<<>>, <<Req("b", <<>>)>>, <<Req("b", Pin(1))>>}}
  /\ filter_requirements = <<>>
  /\ required = FALSE
  /\ test_drive = FALSE
  /\ detail \in BOOLEAN
  /\ full_throttle = FALSE
  /\ debug = FALSE
  /\ disk0 = disk
  /\ disk1 = disk
  /\ run = 1
  /\ pc = "call"
  /\ found_targets = <<>>
  /\ ti = 1
  /\ loops = 0
  /\ bump_requirements = <<>>
  /\ tnames = {}
  /\ filter_matched = FALSE
  /\ bumpers = <<>>
  /\ target_bumpers = <<>>
  /\ bumps = <<>>
  /\ error = ""
  /\ unmet = NoReq
  /\ use_force = FALSE
  /\ man = EmptyManager
  /\ adds = 0
  /\ result = NoResult
  /\ calls = <<>>
  /\ ret = NoReturn

\* the arguments of _bump: the existing requirement, and the bump requirements of a
Existing == {NoReq} \cup {Req("a", sp) : sp \in {<<>>, Pin(1), Pin(MaxVer), AtLeast(1)}}
BumpReqs ==
  SeqsUpTo({[n |-> "a", s |-> sp, required |-> r, required_by |-> NoneStr] :
              sp \in {<<>>, Pin(MaxVer), AtLeast(1), Above(MaxVer)}, r \in BOOLEAN}, MaxReqs)

BumperNext ==
  /\ pc = "call"
  /\ \/ \E existing_req \in Existing, bump_reqs \in BumpReqs :
          CallBump(existing_req, bump_reqs)
     \/ \E reqs \in BumpReqs \ {<<>>} : CallLatest(reqs)

BumperSpec == CallInit /\ [][BumperNext]_vars

Next == Start \/ NextTarget \/ RoundNoBumper \/ RoundBump \/ Validate \/ Except \/ SecondRun

Spec == Init /\ [][Next]_vars

\* runs of the driver, and calls made of a bumper directly
BumpsSpec == (Init \/ CallInit) /\ [][Next \/ BumperNext]_vars

\* RoundBump can be taken exactly at a round for a target a bumper model likes
RoundBumpEnabled == pc = "round" /\ loops < MaxLoops /\ likes(Target)

\* the run is one sequential thread: a step that can be taken is taken
Fairness ==
  /\ WF_vars(Start)
  /\ WF_vars(NextTarget)
  /\ WF_vars(RoundNoBumper)
  /\ WF_vars(Validate)
  /\ WF_vars(Except)
  /\ ([]<>~RoundBumpEnabled \/ []<><<RoundBump>>_vars)

FairSpecUnliked == InitUnliked /\ [][Next]_vars /\ Fairness

\* ------------------------------------------------------------------- claims
\* the files when the current run began
StartDisk == IF run = 1 THEN disk0 ELSE disk1

\* bump has returned or raised
Ended == pc = "done"

\* the requirement lines of a content, the package names they hold, and a package's
\* entry (the last line of its name)
ReqAt(c) == {i \in 1..Len(c.lines) : c.lines[i].k = "req"}
EntryNames(c) == {c.lines[i].n : i \in ReqAt(c)}
LastAt(c, n) ==
  CHOOSE i \in ReqAt(c) : c.lines[i].n = n /\ \A j \in ReqAt(c) : c.lines[j].n = n => j <= i
Entry(c, n) == c.lines[LastAt(c, n)].s

\* C1: a bump that is not a dry run and ends by raising leaves every target file
\* with the content it had when the run began.
C1_Rollback == (Ended /\ error # "" /\ ~test_drive) => disk = StartDisk

\* C2: the loop over a target makes at most 5 rounds.
C2_AtMostFiveRounds == loops <= 5

StillRequired == {n \in DOMAIN bump_requirements : bump_requirements[n].required}
Validated == pc \in {"done", "except"} /\ error \in {"", "NoneFound", "CouldNotBeMet"}

\* C3: after the targets, a bump requirement still marked required makes bump fail
\* with the 'could not be met' error when full_throttle is off and never when it is
\* on; the error names a requirement still required, and carries the force hint
\* exactly when that requirement has a required_by.
C3_RequiredUnmet ==
  /\ (Validated /\ ~full_throttle /\ StillRequired # {}) => error = "CouldNotBeMet"
  /\ full_throttle => error # "CouldNotBeMet"
  /\ error = "CouldNotBeMet" =>
       /\ unmet \in {bump_requirements[n] : n \in StillRequired}
       /\ use_force <=> unmet.required_by # NoneStr

\* a run fails on a requirement a bump required, and the hint is given
C3_Witness == error = "CouldNotBeMet" /\ use_force /\ unmet.required_by = StrOf("a", Pin(MaxVer))

\* C4: in a dry run no target file's content ever changes.
C4_DryRunWritesNothing == test_drive => disk = disk0

\* a dry run that made bumps, raised after them, and went through the except clause
C4_Witness == test_drive /\ Ended /\ bumps # <<>> /\ error # ""

NoneLiked ==
  found_targets # <<>> /\ \A i \in 1..Len(found_targets) : ~likes(found_targets[i])

\* C5: when targets exist and no bumper model likes any of them, bump raises the
\* 'no bumpers found' error.
C5_NoBumpersRaised == [](NoneLiked => <>(error = "NoBumpersFound"))

FilterNames == {filter_requirements[i].n : i \in 1..Len(filter_requirements)}
NamesInTargets ==
  UNION {EntryNames(disk0[found_targets[i]].c) : i \in 1..Len(found_targets)}
NothingMatched ==
  /\ Ended
  /\ found_targets # <<>>
  /\ filter_requirements # <<>>
  /\ FilterNames \cap NamesInTargets = {}
  /\ bumps = <<>>

UserRequires(reqs) ==
  {i \in 1..Len(reqs) : reqs[i].required /\ reqs[i].required_by = NoneStr}

\* C7: bump logs the error _bump raised for a package, instead of raising it, only
\* when no requirement of the user (required_by None) requires that package.
C7_SwallowedOnlyTransitive ==
  pc = "bumped" => \A n \in result.warned : UserRequires(result.m.requirements[n]) = {}

\* C8: a run without a filter made right after a run that returned and wrote its
\* changes (not a dry run) makes no bump and changes no file.
C8_Idempotent == (run = 2 /\ Ended /\ ~test_drive) => (bumps = <<>> /\ disk = disk1)

Outdated(specs, n) == ReqIsPin(specs) /\ index[n] # {} /\ specs[1][2] # Highest(index[n])
Expected(specs, n) == IF Outdated(specs, n) THEN Pin(Highest(index[n])) ELSE specs
AllLatest(c0, c) ==
  /\ EntryNames(c) = EntryNames(c0)
  /\ \A n \in EntryNames(c0) : Entry(c, n) = Expected(Entry(c0, n), n)
Returned1 == run = 1 /\ Ended /\ error = "" /\ ~test_drive /\ filter_requirements = <<>>

\* C9: a run without a filter that is not a dry run and returns has rewritten every
\* entry pinned to another version than the latest as ==latest and changed no other.
C9_PinnedToLatest ==
  Returned1 => \A t \in TargetNames : disk0[t].exists => AllLatest(disk0[t].c, disk[t].c)

\* C9 as amended: the run is made with detail off (no requirement comes from a
\* changelog), and an entry is the last line of its package.
C9_PinnedToLatestNoDetail ==
  (Returned1 /\ ~detail) =>
     \A t \in TargetNames : disk0[t].exists => AllLatest(disk0[t].c, disk[t].c)

\* such a run over a file with an outdated pin and an entry that is left alone
C9_Witness ==
  /\ Returned1 /\ ~detail
  /\ \E t \in TargetNames :
       /\ disk0[t].exists
       /\ \E n, m \in EntryNames(disk0[t].c) :
            Outdated(Entry(disk0[t].c, n), n) /\ ~Outdated(Entry(disk0[t].c, m), m)

Unconstrained(c, n) == n \in EntryNames(c) /\ Entry(c, n) = <<>>
OnlyUnconstrained(c) ==
  ReqAt(c) # {} /\ \A i \in 1..Len(c.lines) : c.lines[i].k = "req" /\ c.lines[i].s = <<>>
NoBumpUnrequested ==
  \A i \in 1..Len(bumpers) : \A b \in bumpers[i].bumps :
    Unconstrained(StartDisk[bumpers[i].target].c, b.name) => b.name \in DOMAIN bump_requirements

\* C10: an existing requirement without specifiers whose name no bump requirement
\* holds yields no Bump, and a file whose entries all are without specifiers is not
\* changed by a run without a filter.
C10_UnconstrainedUntouched ==
  /\ NoBumpUnrequested
  /\ filter_requirements = <<>> =>
       \A t \in TargetNames :
         (disk0[t].exists /\ OnlyUnconstrained(disk0[t].c)) => disk[t] = disk0[t]

\* C10 as amended: the run without a filter is made with detail off, so that no
\* bump requirement comes from a changelog.
C10_UnconstrainedUntouchedNoDetail ==
  /\ NoBumpUnrequested
  /\ (filter_requirements = <<>> /\ ~detail) =>
       \A t \in TargetNames :
         (disk0[t].exists /\ OnlyUnconstrained(disk0[t].c)) => disk[t] = disk0[t]

\* a run without a filter has returned, having bumped another file than the one
\* whose entries are without specifiers
C10_Witness ==
  /\ Returned1 /\ ~detail /\ bumps # <<>>
  /\ \E t \in TargetNames :
       disk0[t].exists /\ OnlyUnconstrained(disk0[t].c) /\ index[disk0[t].c.lines[1].n] # {}

\* the entries of the files, as they were when the run began, whose name the filter
\* does not hold
Unfiltered(t) == EntryNames(disk0[t].c) \ FilterNames
FilterSkips ==
  /\ \A i \in 1..Len(bumpers) : \A b \in bumpers[i].bumps :
       b.name \notin Unfiltered(bumpers[i].target)
  /\ \A t \in TargetNames : disk0[t].exists =>
       \A n \in Unfiltered(t) :
         n \in EntryNames(disk[t].c) /\ Entry(disk[t].c, n) = Entry(disk0[t].c, n)

\* C11: with a non-empty filter, an existing requirement whose name the filter does
\* not hold yields no Bump, and its entry in the file stays as it was.
C11_FilterSkips == filter_requirements # <<>> => FilterSkips

\* C11 as amended: the run is made with detail off, so that no bump requirement comes
\* from the changelog of a bumped package.
C11_FilterSkipsNoDetail == (filter_requirements # <<>> /\ ~detail) => FilterSkips

\* a filtered run has rewritten a file that holds an outdated pin outside the filter
C11_Witness ==
  /\ Ended /\ error = "" /\ ~detail /\ ~test_drive /\ filter_requirements # <<>>
  /\ \E t \in TargetNames :
       /\ disk0[t].exists /\ disk[t] # disk0[t]
       /\ \E n \in Unfiltered(t) : Outdated(Entry(disk0[t].c, n), n)

\* the requirement lines of a content are in the order of their names
SortedEntries(c) ==
  \A i, j \in ReqAt(c) : i < j => NameRank(c.lines[i].n) < NameRank(c.lines[j].n)
Missing(t) ==
  {i \in 1..Len(filter_requirements) : filter_requirements[i].n \notin EntryNames(disk0[t].c)}
AddedTo(t) ==
  /\ \A i \in Missing(t) :
       /\ filter_requirements[i].n \in EntryNames(disk[t].c)
       /\ Entry(disk[t].c, filter_requirements[i].n) = ParseSpecs(filter_requirements[i].s)
  /\ Missing(t) # {} => SortedEntries(disk[t].c)
AddRun == Ended /\ required /\ "requirements.txt" \in {found_targets[i] : i \in 1..Len(found_targets)}

Within(n, specs) == {v \in index[n] : Contains(v, specs)}
BothPinned(n) ==
  \A t \in {"requirements.txt", "pinned.txt"} :
    /\ disk0[t].exists
    /\ n \in EntryNames(disk0[t].c)
    /\ ReqIsPin(Entry(disk0[t].c, n))
    /\ Entry(disk0[t].c, n)[1][2] # Highest(Within(n, Range))
RangeRun ==
  /\ Ended /\ error = "" /\ ~test_drive /\ ~required
  /\ targets = <<"requirements.txt", "pinned.txt">>
  /\ filter_requirements = <<Req("a", Range)>>
  /\ Within("a", Range) # {}
  /\ BothPinned("a")

\* C13: a run filtered by one range for a package that a plain file and a pin file
\* both pin, to another version than the highest published one within the range,
\* leaves the range itself in the plain file and ==<that highest version> in the pin
\* file.
C13_RangeFilter ==
  RangeRun =>
    /\ Entry(disk["requirements.txt"].c, "a") = Range
    /\ Entry(disk["pinned.txt"].c, "a") = Pin(Highest(Within("a", Range)))

\* C14: after any calls of add, no name's list holds two equal BumpRequirements (the
\* same requirement, required and required_by).
C14_NoEqualPair ==
  \A n \in Names : \A i, j \in 1..Len(man.requirements[n]) :
    i # j => ~SameRequirement(man.requirements[n][i], man.requirements[n][j])

\* the entries of a name after two calls of add for it on an empty manager
TwoCalls(n) == pc = "adds" /\ Len(calls) = 2 /\ calls[1].req.n = n /\ calls[2].req.n = n
TwoPinCalls(n) == TwoCalls(n) /\ ReqIsPin(calls[1].req.s) /\ ReqIsPin(calls[2].req.s)
HigherPin(a, b) == IF a[1][2] < b[1][2] THEN b ELSE a

AnyAndConstrained(n) == TwoCalls(n) /\ ((calls[1].req.s = <<>>) # (calls[2].req.s = <<>>))
Constrained == IF calls[1].req.s # <<>> THEN calls[1].req.s ELSE calls[2].req.s

CliFailed == pc \in {"exit 1", "raised"}
NoTargetExists == \A i \in 1..Len(targets) : ~disk0[targets[i]].exists

BadAt(c) == {i \in 1..Len(c.lines) : c.lines[i].k = "bad"}
BadKept(c0, c) ==
  /\ Len(c.lines) = Len(c0.lines)
  /\ \A i \in BadAt(c0) : c.lines[i] = c0.lines[i]
PinsBumped(c0, c) ==
  \A n \in EntryNames(c0) :
    n \in EntryNames(c) /\ Entry(c, n) = Expected(Entry(c0, n), n)
PlainRun == run = 1 /\ Ended /\ ~test_drive /\ ~detail /\ filter_requirements = <<>>
ReadBad ==
  \E i \in 1..Len(found_targets) :
    /\ BadAt(disk0[found_targets[i]].c) # {}
    /\ \E n \in EntryNames(disk0[found_targets[i]].c) :
         Outdated(Entry(disk0[found_targets[i]].c, n), n)

\* C18: a run over a file with lines that do not parse as requirements does not fail,
\* writes these lines back as they were and where they were among the other lines,
\* and bumps the pinned entries.
C18_BadLinesKept ==
  (PlainRun /\ ReadBad) =>
    /\ error = ""
    /\ \A i \in 1..Len(found_targets) :
         /\ BadKept(disk0[found_targets[i]].c, disk[found_targets[i]].c)
         /\ PinsBumped(disk0[found_targets[i]].c, disk[found_targets[i]].c)

\* requirements.txt begins with the line '-r pinned.txt'
Includes ==
  /\ targets = <<"requirements.txt", "pinned.txt">>
  /\ disk0["requirements.txt"].exists /\ disk0["pinned.txt"].exists
  /\ disk0["requirements.txt"].c.lines # <<>>
  /\ disk0["requirements.txt"].c.lines[1] = BadLine
  /\ BadAt(disk0["pinned.txt"].c) = {}
  /\ \E n \in EntryNames(disk0["pinned.txt"].c) : Outdated(Entry(disk0["pinned.txt"].c, n), n)

\* C19: a '-r' line is kept as it is in its file and the file it names is bumped as
\* well: after a run without a filter the pinned entries of both files are at the
\* latest version.
C19_IncludeKept ==
  (PlainRun /\ Includes) =>
    /\ error = ""
    /\ Len(disk["requirements.txt"].c.lines) > 0
    /\ disk["requirements.txt"].c.lines[1] = BadLine
    /\ \A t \in {"requirements.txt", "pinned.txt"} : AllLatest(disk0[t].c, disk[t].c)

\* the bump requirements of the run that are not required, alone and with a second
\* requirement of the name that is not required either
NotRequired == {bump_requirements[n] : n \in {m \in DOMAIN bump_requirements : ~bump_requirements[m].required}}
NotRequiredLists == UNION {{<<r>>, <<r, [r EXCEPT !.s = AtLeast(1)]>>} : r \in NotRequired}
NoBumpForNone ==
  \A reqs \in NotRequiredLists, pin \in BOOLEAN :
    _bump(index, changelog, pin, detail, NoReq, reqs).kind = "none"
NoNewEntry ==
  \A t \in TargetNames : disk0[t].exists => EntryNames(disk[t].c) \subseteq EntryNames(disk0[t].c)
FilterOnly == filter_requirements # <<>> /\ ~required

\* C20: _bump without an existing requirement returns no Bump when none of the bump
\* requirements is required, on a pin target as on any other; so a run with a filter
\* that is not in add mode adds no entry to any file.
C20_NoBumpForNone == NoBumpForNone /\ (FilterOnly => NoNewEntry)

\* C20 as amended: the run is made with detail off.
C20_NoBumpForNoneNoDetail == NoBumpForNone /\ ((FilterOnly /\ ~detail) => NoNewEntry)
C20_Witness ==
  /\ Ended /\ error = "" /\ ~test_drive /\ ~detail /\ FilterOnly
  /\ \E r \in NotRequired : r.s # <<>> /\ \A t \in TargetNames : r.n \notin EntryNames(disk0[t].c)
  /\ disk # disk0

\* _bump has been called and has returned or raised
CalledBump == pc = "called" /\ calls[1].op = "_bump"
ManyOnPlain ==
  /\ CalledBump
  /\ ~should_pin(targets[1])
  /\ Len(calls[1].bump_reqs) > 1
  /\ \/ calls[1].existing_req # NoReq
     \/ \E i \in 1..Len(calls[1].bump_reqs) : calls[1].bump_reqs[i].required

\* C21: on a target that is no pin target, _bump with more than one bump requirement
\* (and an existing requirement or a required bump requirement) raises the conflict
\* error, which names every one of the requirements, and returns no Bump.
C21_Conflict ==
  ManyOnPlain =>
    /\ ret.kind = "error" /\ ret.err = "Conflict" /\ ret.bump = NoBump
    /\ Len(ret.named) = Len(calls[1].bump_reqs)
    /\ \A i \in 1..Len(calls[1].bump_reqs) :
         ret.named[i] = StrOf(calls[1].bump_reqs[i].n, calls[1].bump_reqs[i].s)
C21_Witness ==
  /\ ManyOnPlain
  /\ calls[1].existing_req = NoReq
  /\ calls[1].bump_reqs[1].s # calls[1].bump_reqs[2].s
  /\ index["a"] # {}

\* latest_version_for_requirements has been called; the versions as the index lists
\* them, and those of them within every requirement
CalledLatest == pc = "called" /\ calls[1].op = "latest_version_for_requirements"
Listed == all_package_versions(index, calls[1].reqs[1].n)
WithinAll(v) == \A k \in 1..Len(calls[1].reqs) : Contains(v, calls[1].reqs[k].s)
FirstOfListed(i) == WithinAll(Listed[i]) /\ \A j \in 1..(i - 1) : ~WithinAll(Listed[j])

\* C22: latest_version_for_requirements returns the first version, in the order the
\* index lists the versions, that every requirement contains; where versions are
\* published and none is within all requirements it raises 'No published version
\* could satisfy', listing the first 10 versions at most; where no version is
\* published it raises 'No published versions found'.
C22_LatestWithin ==
  CalledLatest =>
    /\ (\E i \in 1..Len(Listed) : WithinAll(Listed[i])) =>
         /\ ret.err = ""
         /\ \E i \in 1..Len(Listed) : FirstOfListed(i) /\ ret.version = Listed[i]
    /\ (Listed # <<>> /\ \A i \in 1..Len(Listed) : ~WithinAll(Listed[i])) =>
         /\ ret.err = "NoVersionSatisfies"
         /\ Len(ret.listed) <= 10
         /\ \A i \in 1..Len(ret.listed) : ret.listed[i] = Listed[i]
         /\ Len(ret.listed) = 10 \/ Len(ret.listed) = Len(Listed)
    /\ Listed = <<>> => ret.err = "NoPublishedVersions"
C22_Witness ==
  /\ CalledLatest
  /\ Len(Listed) > 10
  /\ ret.err = "NoVersionSatisfies"
  /\ Len(calls[1].reqs) = 2

\* _bump was called and no rule for bump requirements made a Bump or ended the call:
\* there is none, or there is one without specifiers and an existing requirement or a
\* pin target; and the existing requirement is pinned, or there is none on a pin target
ExistingPinned == calls[1].existing_req # NoReq /\ ReqIsPin(calls[1].existing_req.s)
Fallback ==
  /\ CalledBump
  /\ \/ calls[1].existing_req # NoReq
     \/ \E i \in 1..Len(calls[1].bump_reqs) : calls[1].bump_reqs[i].required
  /\ \/ calls[1].bump_reqs = <<>>
     \/ /\ Len(calls[1].bump_reqs) = 1
        /\ calls[1].bump_reqs[1].s = <<>>
        /\ calls[1].existing_req # NoReq \/ should_pin(targets[1])
  /\ ExistingPinned \/ (should_pin(targets[1]) /\ calls[1].existing_req = NoReq)

\* C23: in the fallback case _bump returns a Bump to ==<latest published version>,
\* returns no Bump when the existing pin is the latest already, and raises an error
\* whenever the package has no published version, with an existing pin and without
\* an existing requirement alike.
C23_Fallback ==
  Fallback =>
    IF index["a"] = {} THEN ret.kind = "error" /\ ret.err = "NoPublishedVersion"
    ELSE IF ExistingPinned /\ calls[1].existing_req.s[1][2] = Highest(index["a"])
    THEN ret.kind = "none"
    ELSE ret.kind = "bump" /\ ret.bump.new_version = <<(<<"==", Highest(index["a"])>>)>>

\* the version a returned Bump resolves to: its pin, else the latest version within
\* the bump requirements
Resolved ==
  IF BumpIsPin(ret.bump.new_version) THEN ret.bump.new_version[1][2]
  ELSE latest_version_for_requirements(index, calls[1].bump_reqs).version

\* C24: _bump returns no Bump that changes nothing: a Bump it returns resolves to a
\* version other than the existing pinned version, and its text differs from the text
\* of the existing requirement.
C24_NoNoOp ==
  (CalledBump /\ ret.kind = "bump") =>
    /\ StrBump(ret.bump) # StrExisting(calls[1].existing_req)
    /\ ExistingPinned => Resolved # calls[1].existing_req.s[1][2]
C24_Witness ==
  /\ CalledBump
  /\ ret.kind = "none"
  /\ calls[1].existing_req = Req("a", AtLeast(1))
  /\ Len(calls[1].bump_reqs) = 1 /\ calls[1].bump_reqs[1].s = AtLeast(1)
  /\ ~should_pin(targets[1])
  /\ index["a"] # {}

\* a step that calls check: its context and version, and whether an entry is one the
\* call can check off (still required, and containing the resolved version or written
\* as the resolved requirement text)
CheckStep == pc = "checks" /\ pc' = "checks" /\ calls'[1].op = "check"
CheckedVersion ==
  IF CtxIsPin(calls'[1].ctx) THEN calls'[1].ctx.nv[1][2] ELSE calls'[1].version
Satisfying(e) ==
  /\ e.required
  /\ \/ CheckedVersion # None /\ Contains(CheckedVersion, e.s)
     \/ ~CtxIsPin(calls'[1].ctx) /\ StrOf(calls'[1].ctx.name, calls'[1].ctx.nv) = StrOf(e.n, e.s)
SameButFlags ==
  \A n \in Names :
    /\ Len(man'.requirements[n]) = Len(man.requirements[n])
    /\ \A i \in 1..Len(man.requirements[n]) :
         /\ man'.requirements[n][i].n = man.requirements[n][i].n
         /\ man'.requirements[n][i].s = man.requirements[n][i].s
         /\ man'.requirements[n][i].required_by = man.requirements[n][i].required_by
         /\ man'.requirements[n][i].required => man.requirements[n][i].required
OneCheckedOff ==
  \E i \in 1..Len(man.requirements[calls'[1].ctx.name]) :
    /\ Satisfying(man.requirements[calls'[1].ctx.name][i])
    /\ ~man'.requirements[calls'[1].ctx.name][i].required
    /\ \A n \in Names : \A j \in 1..Len(man.requirements[n]) :
         (n # calls'[1].ctx.name \/ j # i) =>
           man'.requirements[n][j].required = man.requirements[n][j].required

\* C25: a call of check appends its (context, version) to the ledger; it returns true
\* iff the name is managed and an entry of the name is still required and contains
\* the resolved version or is written as the resolved requirement text, and then
\* exactly one such entry goes from required to not required; no entry is added,
\* removed or made required; matched_name becomes true iff the name is managed and
\* stays true.
C25_CheckEffect ==
  [][CheckStep =>
       /\ man'.checked = Append(man.checked, [ctx |-> calls'[1].ctx,
                                              version |-> calls'[1].version])
       /\ ret'.ok <=> /\ Manages(man, calls'[1].ctx.name)
                      /\ \E i \in 1..Len(man.requirements[calls'[1].ctx.name]) :
                           Satisfying(man.requirements[calls'[1].ctx.name][i])
       /\ SameButFlags
       /\ IF ret'.ok THEN OneCheckedOff ELSE man'.requirements = man.requirements
       /\ man'.matched_name = (man.matched_name \/ Manages(man, calls'[1].ctx.name))]_vars
C25_Witness ==
  /\ pc = "checks"
  /\ calls # <<>>
  /\ calls[1].ctx = CtxBump(Bump("a", Pin(MaxVer)))
  /\ ret.ok
  /\ Len(man.requirements["a"]) = 2
  /\ \E i, j \in 1..2 : ~man.requirements["a"][i].required /\ man.requirements["a"][j].required
  /\ Len(man.checked) = 2

\* satisfied_by_checked has been called; whether the i-th entry of the ledger,
\* replayed through check on a new manager that holds the requirement alone,
\* satisfies the requirement
Asked == pc = "asked" /\ calls[1].op = "satisfied_by_checked"
ReplaySatisfies(i) ==
  check(Constructed(EmptyManager, <<calls[1].req>>), man.checked[i].ctx,
        man.checked[i].version).ok

\* C26: satisfied_by_checked(req) returns true iff an entry of the ledger, replayed
\* through check on a new manager holding req alone, satisfies req; with an empty
\* ledger it returns false.
C26_SatisfiedByChecked ==
  Asked =>
    /\ ret.ok <=> \E i \in 1..Len(man.checked) : ReplaySatisfies(i)
    /\ man.checked = <<>> => ~ret.ok
C26_Witness ==
  /\ Asked
  /\ ret.ok
  /\ Len(man.checked) = 2
  /\ ~ReplaySatisfies(1)
  /\ ReplaySatisfies(2)

\* a step that calls satisfied_by_checked
AskStep == pc = "checks" /\ pc' = "asked" /\ calls'[1].op = "satisfied_by_checked"

\* C27: satisfied_by_checked(req) changes nothing: the manager's entries, their
\* required flags, matched_name and the ledger are as before the call, and so is the
\* requirement passed in, its required flag included.
C27_PureQuery == [][AskStep => (man' = man /\ ret'.req = calls'[1].req)]_vars

\* _bump has returned a Bump that carries requirements
Carries == CalledBump /\ ret.kind = "bump" /\ ret.bump.requirements # <<>>

\* C28: a Bump that _bump returns carries requirements only in detail mode, for a pin
\* target, with the current version (an existing pin) and the new version known, and
\* each of them is required, and required by that Bump; with detail off or a target
\* that is no pin target no requirement is carried, and the driver makes one round
\* only for the file.
C28_DetailRequirements ==
  /\ Carries =>
       /\ detail /\ should_pin(targets[1])
       /\ ExistingPinned /\ BumpIsPin(ret.bump.new_version)
       /\ \A i \in 1..Len(ret.bump.requirements) :
            /\ ret.bump.requirements[i].required
            /\ ret.bump.requirements[i].required_by = StrBump(ret.bump)
  /\ (pc = "round" /\ likes(Target) /\ (~detail \/ ~should_pin(Target))) => loops = 0
C28_Witness ==
  /\ Carries
  /\ calls[1].bump_reqs # <<>>
  /\ ret.bump.requirements[1].n = "b"

\* a later round for the target is about to be made: the names its bumper has bumped
\* in the rounds before, and the names the round bumps
LaterRound == pc = "round" /\ target_bumpers # <<>>
BumpedBefore == {k.name : k \in bumpers[target_bumpers[1]].bumps}
BumpedNow == {bumps'[i].name : i \in (Len(bumps) + 1)..Len(bumps')}

\* C29: the requirements handed to a later round for a target hold no name a round
\* before bumped in that target, and a round bumps no name bumped in that target
\* before.
C29_NoRepeatedBump ==
  [][LaterRound => (tnames \cap BumpedBefore = {} /\ BumpedNow \cap BumpedBefore = {})]_vars

\* a step that calls add: the requirement added (with the flag add was given), the
\* entries of its name before and after, and the entries add stops at: an equal
\* one, or one a merge rule fires for (two pins, or one of the two without specifier)
AddStep == pc = "adds" /\ Len(calls') = Len(calls) + 1
AddedReq ==
  IF calls'[Len(calls')].flag = "None" THEN calls'[Len(calls')].req
  ELSE [calls'[Len(calls')].req EXCEPT !.required = (calls'[Len(calls')].flag = "True")]
Before == man.requirements[AddedReq.n]
After == man'.requirements[AddedReq.n]
Equal(i) == Before[i] = AddedReq
Merging(i) ==
  \/ AddedReq.s # <<>> /\ AddedReq.s[1][1] = "==" /\ Before[i].s # <<>> /\ Before[i].s[1][1] = "=="
  \/ AddedReq.s = <<>>
  \/ Before[i].s = <<>>
Merged(i) ==
  /\ ~Equal(i) /\ Merging(i)
  /\ \A j \in 1..(i - 1) : ~Equal(j) /\ ~Merging(j)
Left == After[Len(After)]

PassOverA ==
  /\ pc = "bumped"
  /\ "a" \in EntryNames(disk[targets[1]].c)
  /\ Manages(man, "a")
ExistingA == Req("a", Entry(disk[targets[1]].c, "a"))
AtBump == check(man, CtxReq(ExistingA), None).m
BumpOfA ==
  _bump(index, changelog, should_pin(targets[1]), detail, ExistingA, ManagerGet(AtBump, "a"))
RequiredOfA == SelectRequired(ManagerGet(AtBump, "a"))

\* C31: in the pass over the existing requirements an error of _bump for a package is
\* raised again iff the package has no required bump requirement or every required
\* bump requirement of it has required_by None; otherwise it is logged and the pass
\* goes on.
C31_ReraiseByRequired ==
  (PassOverA /\ BumpOfA.kind = "error") =>
    IF \A i \in 1..Len(RequiredOfA) : RequiredOfA[i].required_by = NoneStr
    THEN result.err = BumpOfA.err /\ "a" \notin result.warned
    ELSE "a" \in result.warned

\* the content a bumper holds as the original, once read, is the content its target
\* had when the run began
SnapshotKept ==
  \A i \in 1..Len(bumpers) :
    bumpers[i].original.read => bumpers[i].original.c = StartDisk[bumpers[i].target].c

\* reverse has been called on the bumpers after a write
Reversed == pc = "done" /\ error # "" /\ ~test_drive /\ bumps # <<>>

\* C32: for every bumper and every content of its target, an empty file included,
\* the original content it holds, once read, stays the content the file had before
\* the run's first write, and reverse() after a write leaves the file with exactly
\* that content.
C32_SnapshotRestores ==
  /\ SnapshotKept
  /\ Reversed => \A i \in 1..Len(bumpers) : disk[bumpers[i].target] = StartDisk[bumpers[i].target]

\* a round in which the bumper of the target made its pass and reached its write:
\* the bumper afterwards, the content the target had when the run began, and the
\* names the bumper has bumped
PersistStep == pc = "round" /\ likes(Target) /\ loops' = loops + 1 /\ pc' # "except"
Persisting == bumpers'[target_bumpers'[1]]
Original == StartDisk[Target].c
BumpedNames == {k.name : k \in Persisting.bumps}

\* the entries of the original that a comment line stands right before, and the
\* comment block of a name: the comment lines right before the last such entry of it
Commented(n) ==
  {i \in ReqAt(Original) : Original.lines[i].n = n /\ i > 1 /\ Original.lines[i - 1].k = "com"}
LastCommented(n) == CHOOSE i \in Commented(n) : \A j \in Commented(n) : j <= i
BlockStart(i) ==
  CHOOSE j \in 1..i : /\ \A k \in j..(i - 1) : Original.lines[k].k = "com"
                      /\ (j = 1 \/ Original.lines[j - 1].k # "com")
BlockOf(n) ==
  IF Commented(n) = {} THEN <<>>
  ELSE SubSeq(Original.lines, BlockStart(LastCommented(n)), LastCommented(n) - 1)

\* the lines the claim has written: per name, in the order of the names, its comment
\* block and one line for it (the specifier left open here)
RECURSIVE WrittenShape(_, _)
WrittenShape(names, i) ==
  IF i > Len(names) THEN <<>>
  ELSE BlockOf(names[i]) \o <<ReqLine(names[i], <<>>)>> \o WrittenShape(names, i + 1)
Shape(lines) ==
  [i \in 1..Len(lines) |-> IF lines[i].k = "req" THEN ReqLine(lines[i].n, <<>>) ELSE lines[i]]
EntryWritten(line) ==
  IF line.n \in BumpedNames
  THEN \E k \in Persisting.bumps : k.name = line.n /\ line.s = ParseSpecs(k.new_version)
  ELSE line.s = Entry(Original, line.n)

\* C33: the write of a bumper with bumps (outside a dry run) leaves the target with
\* one line per package name, the original entries with the entry of each bumped
\* name replaced or added, in the order of the names, each entry that had a comment
\* block before it in the original with that block right before it; a bumper
\* without bumps writes nothing.
C33_Persist ==
  [][PersistStep =>
       /\ (Persisting.bumps # {} /\ ~test_drive) =>
            /\ Shape(disk'[Target].c.lines)
                 = WrittenShape(SortNames(EntryNames(Original) \cup BumpedNames), 1)
            /\ \A i \in ReqAt(disk'[Target].c) : EntryWritten(disk'[Target].c.lines[i])
       /\ Persisting.bumps = {} => disk' = disk]_vars

\* a bumper has written a target whose original held a comment line and then an
\* entry: the comment still leads the file, and an entry was added after it
C33_Witness ==
  /\ ~test_drive /\ error = ""
  /\ \E i \in 1..Len(bumpers) :
       /\ bumpers[i].bumps # {}
       /\ Len(StartDisk[bumpers[i].target].c.lines) = 2
       /\ StartDisk[bumpers[i].target].c.lines[1].k = "com"
       /\ StartDisk[bumpers[i].target].c.lines[2].k = "req"
       /\ Len(disk[bumpers[i].target].c.lines) = 3
       /\ disk[bumpers[i].target].c.lines[1] = StartDisk[bumpers[i].target].c.lines[1]
====
